---- MODULE Spec2Model ----
(***************************************************************************)
(* Verification model of the game runtime core:                            *)
(*   - SceneManager (packages/game-core/src/managers/SceneManager.ts)      *)
(*   - the card board of GameplayScene with its undo history               *)
(*     (packages/game-core/src/scenes/GameplayScene.ts, entities/Card)     *)
(*   - the startup sequence and the orientation lock of Game               *)
(*     (packages/shared/src/types.ts)                                      *)
(*   - AudioManager and the part of the sound library it drives            *)
(*   - LayoutSystem (packages/game-core/src/LayoutSystem.ts)               *)
(* JavaScript is single threaded: every handler runs to its next await (or *)
(* to its end) atomically, so each action below is one such run.           *)
(***************************************************************************)
EXTENDS Integers, Sequences, FiniteSets, TLC

(***************************************************************************)
(* Bounds                                                                  *)
(***************************************************************************)
\* number of Scene objects that callers construct and pass to changeScene
MaxScenes == 4
\* number of ticker calls of update(dt)
MaxUpdates == 2

NoScene == 0
Scenes == 1..MaxScenes

VARIABLES
  \* ---- SceneManager fields ----
  currentScene,        \* this.currentScene (NoScene = null)
  isChanging,          \* this.isChanging
  pendingTransition,   \* this.pendingTransition (NoScene = null)
  attached,            \* children of this.sceneRoot
  \* ---- environment of the SceneManager ----
  createState,         \* per scene: "none", "running", "resolved", "rejected"
  log,                 \* lifecycle events in the order the code performs them
  constructed,         \* number of Scene objects constructed so far
  promise,             \* per scene: state of the promise changeScene(scene) returned
  rejectedWith,        \* per scene: whose create() error that promise rejected with
  chainRoot,           \* the scene of the outermost changeScene frame still awaiting
  chainError,          \* the error currently propagating out of the frames
  queuedBehind,        \* per scene: the scene whose create() was running when it was requested
  \* ---- GameplayScene fields (the card board) ----
  levelData,           \* this.levelData: index into Levels (0 before construction)
  tableau,             \* this.tableau
  stockPile,           \* this.stockPile
  wasteCard,           \* this.wasteCard (NoCard = not yet assigned)
  history,             \* this.history
  coins,               \* this.coins
  isFaceUp,            \* per card: Card.isFaceUp
  coveredBy,           \* per card: Card.coveredBy
  eventMode,           \* per card: Card.eventMode ("static" or "none")
  tutorialVisible,     \* this.tutorialBubble.visible
  currentLevel,        \* this.context.progress.currentLevel (0 = the field is absent)
  progress,            \* this.context.progress: lastScore and highScore
  storage,             \* the platform's key-value storage (setData / getData)
  startLevel,          \* progress.currentLevel as it was when the level was created
  dialog,              \* what the level-complete dialog shows (NoDialog = none shown)
  phase,               \* "constructed", "playing", then the win sequence
  \* ---- animation callbacks that are scheduled and have not run yet ----
  moveTween,           \* per card: the tween of the card that still owes callbacks
  flipTweens,          \* per card: flip tweens on card.scale that still owe onComplete
  hideTweens,          \* hide tweens of the tutorial bubble that still owe onComplete
  \* ---- bookkeeping for the undo identity ----
  beforeMove,          \* the board as it was before the latest move, if not undone
  expected,            \* the board the latest undo has to restore
  \* ---- a Card on its own ----
  canPlay,             \* the latest call of Card.canPlayOn: its inputs and its result
  \* ---- Game: init() and the orientation lock ----
  initStage,           \* where init() stands: the await it is parked at, or its end
  platformPromise,     \* the promise platform.initialize() returned
  timeoutTimer,        \* the setTimeout of withTimeout(platform.initialize(), 3000)
  usedDefaults,        \* the .catch of the platform step ran (startup goes on with defaults)
  loadingStarted,      \* changeScene(new LoadingScene) has been called
  windowPortrait,      \* the device: window.innerWidth < window.innerHeight
  screenPortrait,      \* app.screen.width < app.screen.height
  isPortrait,          \* this.isPortrait
  portraitOverlay,     \* this.portraitOverlay is not null
  overlayDisplay,      \* portraitOverlay.style.display ("none" while there is no overlay)
  tickerSpeed,         \* this.app.ticker.speed
  checkedSinceRotate,  \* checkOrientation has run since the device last rotated
  \* ---- AudioManager fields ----
  isUnlocked,          \* this.isUnlocked
  pendingMusic,        \* this.pendingMusic (NoTrack = null)
  currentMusic,        \* this.currentMusic (NoTrack = null)
  currentMusicInstance,\* this.currentMusicInstance is not null
  registeredSounds,    \* this.registeredSounds
  failedSounds,        \* this.failedSounds
  musicEnabled,        \* this.settings.musicEnabled
  sfxEnabled,          \* this.settings.sfxEnabled
  \* ---- the sound library and the browser ----
  audioContext,        \* audioContext.state: "suspended" or "running"
  resumes,             \* promises of audioContext.resume() that have not settled
  playing,             \* tracks of which the library holds a started instance
  \* ---- bookkeeping for the calls made before the unlock ----
  earlyCalls,          \* the tracks asked for while isUnlocked was false
  soundPlays,          \* the tracks that were ever passed to sound.play
  musicVolume,         \* this.settings.musicVolume, in tenths
  musicStopped,        \* stopMusic() was called and playMusic() has not been since
  \* ---- Game: progress and settings, and the platform's storage ----
  gameMemory,          \* context.progress and context.settings.audio, by storage key
  platformData,        \* the platform's key-value store (Null = key never set)
  lastCall,            \* the latest saveProgress / loadProgress call and its promise
  \* ---- LayoutSystem ----
  viewport,            \* the physical viewport: <<window.innerWidth, window.innerHeight>>
  appScreen,           \* <<app.screen.width, app.screen.height>> (<<0, 0>> before app.init)
  layoutState,         \* this.layoutState: <<>> (null) or <<the LayoutState>>
  sceneLayers,         \* this.sceneLayers is not null
  \* ---- MenuScene: the play button and the level-start dialog ----
  menuStage,           \* "constructed" or "created"
  menuLevel,           \* currentLevel as createMenuUI read it
  buttonMode,          \* uiPlayBg.eventMode
  buttonScale,         \* per menu button: scale, in tenths
  startDialog,         \* the level-start dialog: "none", "open", "closingPlay", "closingOut"
  dialogButtonScale,   \* scale of the Play button of the dialog, in hundredths
  levelLoad,           \* Assets.load of the level file: "none", "loading", "failed", "loaded"
  gameplayRequested,   \* changeScene(new GameplayScene(...)) has been called
  \* ---- the high-score endpoint of the server and its redis store ----
  redisScore,          \* the value under highscore:<postId>:<userId> (Null = never set)
  requests,            \* per POST /highscore request: where its handler stands
  \* ---- the LoadingScene and the SceneManager that starts it ----
  loaderScene,         \* sceneManager.currentScene: "none", "LoadingScene", "MenuScene"
  loaderChanging,      \* sceneManager.isChanging
  loaderPending,       \* sceneManager.pendingTransition ("none" = null)
  loadStage,           \* where create() of the LoadingScene stands
  loadingProgress,     \* LoadingScene.progress, in units of 1/TotalAssets percent
  loadedAssets,        \* LoadingScene.loadedAssets
  transitioned,        \* LoadingScene.transitioned
  backgroundSprite,    \* LoadingScene.backgroundSprite ("null" or "sprite")
  textures,            \* the outcome of Assets.load for each image settled so far
  soundFetch,          \* per sound of the registry: the state of its fetch
  menuRequestLog       \* one entry per changeScene(new MenuScene(..)) of the LoadingScene

sceneVars == <<currentScene, isChanging, pendingTransition, attached, createState,
               log, constructed, promise, rejectedWith, chainRoot, chainError,
               queuedBehind>>

boardVars == <<levelData, tableau, stockPile, wasteCard, history, coins, isFaceUp,
               coveredBy, eventMode, tutorialVisible, currentLevel, progress,
               storage, startLevel, dialog, phase,
               moveTween, flipTweens, hideTweens, beforeMove, expected>>

cardVars == <<canPlay>>

gameVars == <<initStage, platformPromise, timeoutTimer, usedDefaults, loadingStarted,
              windowPortrait, screenPortrait, isPortrait, portraitOverlay,
              overlayDisplay, tickerSpeed, checkedSinceRotate>>

audioVars == <<isUnlocked, pendingMusic, currentMusic, currentMusicInstance,
               registeredSounds, failedSounds, musicEnabled, sfxEnabled,
               audioContext, resumes, playing, earlyCalls, soundPlays,
               musicVolume, musicStopped>>

persistVars == <<gameMemory, platformData, lastCall>>

layoutVars == <<viewport, appScreen, layoutState, sceneLayers>>

menuVars == <<menuStage, menuLevel, buttonMode, buttonScale, startDialog, dialogButtonScale, levelLoad, gameplayRequested>>

serverVars == <<redisScore, requests>>

loadingVars == <<loaderScene, loaderChanging, loaderPending, loadStage, loadingProgress, loadedAssets, transitioned, backgroundSprite, textures, soundFetch, menuRequestLog>>

vars == <<sceneVars, boardVars, cardVars, gameVars, audioVars, persistVars, layoutVars, menuVars, serverVars, loadingVars>>

\* what the steps of one component leave alone
nonSceneVars == <<boardVars, cardVars, gameVars, audioVars, persistVars, layoutVars, menuVars, serverVars, loadingVars>>

nonBoardVars == <<sceneVars, cardVars, gameVars, audioVars, persistVars, layoutVars, menuVars, serverVars, loadingVars>>

nonCardVars == <<sceneVars, boardVars, gameVars, audioVars, persistVars, layoutVars, menuVars, serverVars, loadingVars>>

nonGameVars == <<sceneVars, boardVars, cardVars, audioVars, persistVars, layoutVars, menuVars, serverVars, loadingVars>>

nonAudioVars == <<sceneVars, boardVars, cardVars, gameVars, persistVars, layoutVars, menuVars, serverVars, loadingVars>>

nonPersistVars == <<sceneVars, boardVars, cardVars, gameVars, audioVars, layoutVars, menuVars, serverVars, loadingVars>>

nonLayoutVars == <<sceneVars, boardVars, cardVars, gameVars, audioVars, persistVars, menuVars, serverVars, loadingVars>>

nonMenuVars == <<sceneVars, boardVars, cardVars, gameVars, audioVars, persistVars, layoutVars, serverVars, loadingVars>>

nonServerVars == <<sceneVars, boardVars, cardVars, gameVars, audioVars, persistVars, layoutVars, menuVars, loadingVars>>

nonLoadingVars == <<sceneVars, boardVars, cardVars, gameVars, audioVars, persistVars, layoutVars, menuVars, serverVars>>

(***************************************************************************)
(* SceneManager                                                            *)
(***************************************************************************)
\* the fields the synchronous part of changeScene reads and writes
Mgr ==
  [cur |-> currentScene, chg |-> isChanging, pend |-> pendingTransition,
   att |-> attached, cs |-> createState, log |-> log]

\* one statement of the try block of changeScene
ApplyStep(m, step) ==
  LET op == step[1]
      s  == step[2]
      m1 == [m EXCEPT !.log = Append(@, step)]
  IN CASE op = "exit"    -> m1
       [] op = "detach"  -> [m1 EXCEPT !.att = @ \ {s}]
       [] op = "destroy" -> m1
       [] op = "current" -> [m1 EXCEPT !.cur = s]
       [] op = "attach"  -> [m1 EXCEPT !.att = @ \cup {s}]
       [] op = "create"  -> [m1 EXCEPT !.cs[s] = "running"]

RECURSIVE RunSteps(_, _)
RunSteps(m, steps) ==
  IF steps = <<>> THEN m
  ELSE RunSteps(ApplyStep(m, Head(steps)), Tail(steps))

TeardownStepsNoDetach(old) ==
  IF old = NoScene THEN <<>>
  ELSE << <<"exit", old>>, <<"destroy", old>> >>

\* if (this.currentScene) { exit(); removeChild(container); destroy(); }
TeardownSteps(old) ==
  IF old = NoScene THEN <<>>
  ELSE << <<"exit", old>>, <<"detach", old>>, <<"destroy", old>> >>

SetupStepsCreateFirst(new) ==
  << <<"current", new>>, <<"create", new>>, <<"attach", new>> >>

\* this.currentScene = scene; addChild(scene.container); await scene.create()
SetupSteps(new) ==
  << <<"current", new>>, <<"attach", new>>, <<"create", new>> >>

\* changeScene from "this.isChanging = true" up to the await of create()
BeginTransition(m, scene) ==
  RunSteps([m EXCEPT !.chg = TRUE, !.log = Append(@, <<"mark", scene>>)],
           TeardownSteps(m.cur) \o SetupSteps(scene))

NeverQueues(m) == FALSE

\* if (this.isChanging) { this.pendingTransition = ...; return; }
Queues(m) == m.chg

FinallyDropsPending(m, s) ==
  [m EXCEPT !.chg = FALSE, !.log = Append(@, <<"unmark", s>>)]

\* the finally block: unmark, then recurse into the pending transition
Finally(m, s) ==
  LET m1 == [m EXCEPT !.chg = FALSE, !.log = Append(@, <<"unmark", s>>)]
  IN IF m1.pend # NoScene
       THEN BeginTransition([m1 EXCEPT !.pend = NoScene], m1.pend)
       ELSE m1

FirstErrorWins(prevErr, threw, s) ==
  IF prevErr # NoScene THEN prevErr ELSE IF threw THEN s ELSE NoScene

\* the error a frame propagates: catch rethrows the create() error of this
\* frame; an error thrown by the recursive call inside finally replaces it.
\* Frames settle innermost first, so the latest error is the one that leaves.
ChainOutcome(prevErr, threw, s) ==
  IF threw THEN s ELSE prevErr

UpdatesWhileChanging(m) == m.cur # NoScene

\* update(dt): if (this.currentScene && !this.isChanging)
CanUpdate(m) == m.cur # NoScene /\ ~m.chg

SetMgr(m) ==
  /\ currentScene' = m.cur
  /\ isChanging' = m.chg
  /\ pendingTransition' = m.pend
  /\ attached' = m.att
  /\ createState' = m.cs
  /\ log' = m.log

RunningScene ==
  IF \E s \in Scenes : createState[s] = "running"
    THEN CHOOSE s \in Scenes : createState[s] = "running"
    ELSE NoScene

ChangeSceneQueuedKeepsFirst ==
  /\ constructed < MaxScenes
  /\ Queues(Mgr)
  /\ LET scene == constructed + 1 IN
       /\ constructed' = scene
       /\ pendingTransition' = IF pendingTransition = NoScene
                                 THEN scene ELSE pendingTransition
       /\ promise' = [promise EXCEPT ![scene] = "resolved"]
       /\ queuedBehind' = [queuedBehind EXCEPT ![scene] = RunningScene]
  /\ UNCHANGED <<currentScene, isChanging, attached, createState, log,
                 rejectedWith, chainRoot, chainError>>

\* a caller constructs a scene and calls changeScene while a transition is in
\* flight: the request is stored and the returned promise resolves at once
ChangeSceneQueued ==
  /\ constructed < MaxScenes
  /\ Queues(Mgr)
  /\ LET scene == constructed + 1 IN
       /\ constructed' = scene
       /\ pendingTransition' = scene
       /\ promise' = [promise EXCEPT ![scene] = "resolved"]
       /\ queuedBehind' = [queuedBehind EXCEPT ![scene] = RunningScene]
  /\ UNCHANGED <<currentScene, isChanging, attached, createState, log,
                 rejectedWith, chainRoot, chainError>>

\* a caller constructs a scene and calls changeScene while no transition is in
\* flight: the call runs up to "await scene.create()"
ChangeSceneRun ==
  /\ constructed < MaxScenes
  /\ ~Queues(Mgr)
  /\ LET scene == constructed + 1 IN
       /\ constructed' = scene
       /\ SetMgr(BeginTransition(Mgr, scene))
       /\ promise' = [promise EXCEPT ![scene] = "pending"]
       /\ queuedBehind' = [queuedBehind EXCEPT ![scene] = RunningScene]
       /\ chainRoot' = scene
       /\ chainError' = NoScene
  /\ UNCHANGED rejectedWith

\* scene.create() settles: the rest of the frame (catch, finally) runs
CreateSettles(s, threw) ==
  /\ createState[s] = "running"
  /\ LET m0  == [Mgr EXCEPT !.cs[s] = IF threw THEN "rejected" ELSE "resolved",
                            !.log = Append(@, <<"settled", s>>)]
         err == ChainOutcome(chainError, threw, s)
         m1  == Finally(m0, s)
     IN /\ SetMgr(m1)
        /\ IF m1.chg
             THEN \* a pending transition was started: the frames keep awaiting
                  /\ chainError' = err
                  /\ UNCHANGED <<promise, rejectedWith, chainRoot>>
             ELSE \* every frame returns; the outermost promise settles
                  /\ chainError' = NoScene
                  /\ chainRoot' = NoScene
                  /\ promise' = [promise EXCEPT ![chainRoot] =
                                   IF err # NoScene THEN "rejected" ELSE "resolved"]
                  /\ rejectedWith' = [rejectedWith EXCEPT ![chainRoot] = err]
  /\ UNCHANGED <<constructed, queuedBehind>>

CreateResolves == \E s \in Scenes : CreateSettles(s, FALSE)

CreateThrows == \E s \in Scenes : CreateSettles(s, TRUE)

NumTicks == Cardinality({i \in 1..Len(log) : log[i][1] \in {"update", "skip"}})

\* the ticker calls update(dt): the tick is forwarded to the current scene
\* ("update") or dropped ("skip")
Update ==
  /\ NumTicks < MaxUpdates
  /\ IF CanUpdate(Mgr)
       THEN log' = Append(log, <<"update", currentScene>>)
       ELSE log' = Append(log, <<"skip", currentScene>>)
  /\ UNCHANGED <<currentScene, isChanging, pendingTransition, attached,
                 createState, constructed, promise, rejectedWith, chainRoot,
                 chainError, queuedBehind>>

\* the statement of the teardown that throws
ThrowPoints == {"exit", "destroy"}

\* one changeScene frame whose teardown throws at the given statement: the
\* statements up to it run, catch logs and rethrows, finally unmarks; no
\* request can have been stored during this synchronous run
ThrowingTeardown(m, scene, at) ==
  LET old == m.cur
      m1 == [m EXCEPT !.chg = TRUE, !.log = Append(@, <<"mark", scene>>)]
      m2 == RunSteps(m1, IF at = "exit" THEN << <<"exit", old>> >>
                                        ELSE TeardownSteps(old))
  IN [m2 EXCEPT !.chg = FALSE,
                !.log = @ \o << <<"threw", old>>, <<"unmark", scene>> >>]

\* a caller calls changeScene while no transition is in flight and exit() or
\* destroy() of the current scene throws: the returned promise rejects
ChangeSceneTeardownThrows ==
  /\ constructed < MaxScenes
  /\ ~Queues(Mgr)
  /\ currentScene # NoScene
  /\ \E at \in ThrowPoints :
       LET scene == constructed + 1 IN
         /\ constructed' = scene
         /\ SetMgr(ThrowingTeardown(Mgr, scene, at))
         /\ promise' = [promise EXCEPT ![scene] = "rejected"]
  /\ UNCHANGED <<rejectedWith, chainRoot, chainError, queuedBehind>>

\* scene.create() settles with a request pending, and exit() or destroy() of
\* the current scene throws in the changeScene call of the finally block:
\* that error replaces any other and every frame returns
PendingTeardownThrows ==
  \E s \in Scenes, threw \in BOOLEAN, at \in ThrowPoints :
    /\ createState[s] = "running"
    /\ pendingTransition # NoScene
    /\ LET m0 == [Mgr EXCEPT !.cs[s] = IF threw THEN "rejected" ELSE "resolved",
                             !.log = Append(@, <<"settled", s>>)]
           m1 == [m0 EXCEPT !.chg = FALSE, !.log = Append(@, <<"unmark", s>>),
                            !.pend = NoScene]
       IN SetMgr(ThrowingTeardown(m1, m0.pend, at))
    /\ chainError' = NoScene
    /\ chainRoot' = NoScene
    /\ promise' = [promise EXCEPT ![chainRoot] = "rejected"]
    /\ UNCHANGED <<constructed, rejectedWith, queuedBehind>>

\* SceneManager.destroy() has run
ManagerDestroyed == \E i \in 1..Len(log) : log[i][1] = "managerDestroyed"

\* destroy(): the current scene is exited and destroyed, currentScene is
\* cleared and sceneRoot is destroyed with its children; isChanging and
\* pendingTransition are left as they are
ManagerDestroy ==
  /\ ~ManagerDestroyed
  /\ constructed > 0
  /\ LET m1 == IF currentScene = NoScene THEN Mgr
               ELSE [RunSteps(Mgr, << <<"exit", currentScene>>, <<"destroy", currentScene>> >>)
                       EXCEPT !.cur = NoScene]
     IN SetMgr([m1 EXCEPT !.att = {}, !.log = Append(@, <<"managerDestroyed", NoScene>>)])
  /\ UNCHANGED <<constructed, promise, rejectedWith, chainRoot, chainError,
                 queuedBehind>>

SceneInit ==
  /\ currentScene = NoScene
  /\ isChanging = FALSE
  /\ pendingTransition = NoScene
  /\ attached = {}
  /\ createState = [s \in Scenes |-> "none"]
  /\ log = <<>>
  /\ constructed = 0
  /\ promise = [s \in Scenes |-> "none"]
  /\ rejectedWith = [s \in Scenes |-> NoScene]
  /\ chainRoot = NoScene
  /\ chainError = NoScene
  /\ queuedBehind = [s \in Scenes |-> NoScene]

(***************************************************************************)
(* Scene lifecycle claims                                                  *)
(***************************************************************************)
Count(op, s) == Cardinality({i \in 1..Len(log) : log[i] = <<op, s>>})

Settled(s) == createState[s] \in {"resolved", "rejected"}

AllCreatesSettled == \A s \in Scenes : createState[s] # "running"

\* C1: when changeScene(S3) is requested while S2.create() is running, S3 is
\* neither attached nor created before S2.create() has settled; and once every
\* create() has settled the last such request is the current scene and the
\* scene it waited for has had create(), exit() and destroy() called exactly
\* once each.
C1_Coalescing ==
  /\ \A s3 \in Scenes :
       (queuedBehind[s3] # NoScene /\ (createState[s3] # "none" \/ s3 \in attached))
         => Settled(queuedBehind[s3])
  /\ (AllCreatesSettled /\ constructed # 0 /\ queuedBehind[constructed] # NoScene)
       => /\ currentScene = constructed
          /\ Count("create", queuedBehind[constructed]) = 1
          /\ Count("exit", queuedBehind[constructed]) = 1
          /\ Count("destroy", queuedBehind[constructed]) = 1

C1_Witness ==
  /\ AllCreatesSettled
  /\ constructed = 3
  /\ queuedBehind[3] = 2
  /\ currentScene = 3
  /\ Count("destroy", 2) = 1

\* C2: at most one scene is attached to the scene root, and the scene a tick
\* would be forwarded to is that attached scene: together they are at most one.
C2_OneLiveScene ==
  Cardinality(attached \cup (IF CanUpdate(Mgr) THEN {currentScene} ELSE {})) <= 1

C2_Witness ==
  /\ isChanging
  /\ pendingTransition # NoScene
  /\ Count("detach", 1) = 1
  /\ Cardinality(attached) = 1

Marks(i) == Cardinality({j \in 1..i : log[j][1] = "mark"})

Unmarks(i) == Cardinality({j \in 1..i : log[j][1] = "unmark"})

\* C3: every update() that was forwarded to a scene happened outside any
\* transition (as many unmarks as marks before it) and after that scene's
\* create() had settled.
C3_NoUpdateInFlight ==
  \A i \in 1..Len(log) :
    log[i][1] = "update"
      => /\ Marks(i) = Unmarks(i)
         /\ \E j \in 1..i : log[j] = <<"settled", log[i][2]>>

C3_Witness ==
  \E i, k \in 1..Len(log) :
    /\ i < k
    /\ log[i][1] = "skip"
    /\ log[i][2] # NoScene
    /\ log[k] = <<"update", log[i][2]>>

\* C4: a scene whose create() threw is not the current scene once the
\* transition has ended, and no update() is ever forwarded to it.
C4_FailedSceneNotActive ==
  \A s \in Scenes :
    createState[s] = "rejected"
      => /\ (~isChanging => currentScene # s)
         /\ Count("update", s) = 0

\* C5 as stated: the promise returned by changeScene(S) rejects with the error
\* of S.create(), whether S ran at once or was stored as pending.
C5_RequesterRejects ==
  \A s \in Scenes :
    (createState[s] = "rejected" /\ AllCreatesSettled)
      => (promise[s] = "rejected" /\ rejectedWith[s] = s)

Roots == {r \in 1..constructed : queuedBehind[r] = NoScene}

\* the scenes whose transitions ran inside the frames of root call r
ChainOf(r) ==
  {s \in r..constructed :
     /\ createState[s] # "none"
     /\ \A r2 \in Roots : r2 > r => s < r2}

Thrown(r) == {s \in ChainOf(r) : createState[s] = "rejected"}

MaxOf(S) == CHOOSE x \in S : \A y \in S : y <= x

\* C5 amended: a request stored as pending has its promise resolved at once
\* and it never rejects; the promise of the call that ran at once stays
\* pending until its whole chain of pending transitions has run and then
\* rejects with the error of the last create() of the chain that threw, or
\* resolves when none threw.
C5_ChainRejects ==
  /\ \A s \in 1..constructed :
       queuedBehind[s] # NoScene => promise[s] = "resolved"
  /\ \A r \in Roots :
       IF chainRoot = r
         THEN promise[r] = "pending"
         ELSE IF Thrown(r) = {}
                THEN promise[r] = "resolved"
                ELSE promise[r] = "rejected" /\ rejectedWith[r] = MaxOf(Thrown(r))

C5_Witness ==
  \E r, s \in Scenes :
    /\ r # s
    /\ promise[r] = "rejected"
    /\ rejectedWith[r] = s
    /\ createState[r] = "rejected"
    /\ promise[s] = "resolved"

\* C6 as stated: a scene is not the current scene before its create() has
\* completed (it is marked active after create()).
C6_ActiveAfterCreate ==
  \A s \in Scenes : createState[s] = "running" => currentScene # s

Lifecycle == SelectSeq(log, LAMBDA e : e[1] \notin {"update", "skip"})

Started == SelectSeq(log, LAMBDA e : e[1] = "mark")

ExpectedBlock(old, new) ==
  << <<"mark", new>> >>
  \o (IF old = NoScene THEN <<>>
      ELSE << <<"exit", old>>, <<"detach", old>>, <<"destroy", old>> >>)
  \o << <<"current", new>>, <<"attach", new>>, <<"create", new>>,
        <<"settled", new>>, <<"unmark", new>> >>

RECURSIVE ExpectedLog(_, _)
ExpectedLog(old, marks) ==
  IF marks = <<>> THEN <<>>
  ELSE ExpectedBlock(old, Head(marks)[2]) \o ExpectedLog(Head(marks)[2], Tail(marks))

IsPrefix(a, b) == Len(a) <= Len(b) /\ a = SubSeq(b, 1, Len(a))

\* C6 amended: every transition from S1 to S2 performs, in this order,
\* S1.exit(), detach S1, S1.destroy(), set S2 as the current scene, attach S2,
\* S2.create(), unmark transitioning; S2 is the current scene all the time its
\* create() is running.
C6_TransitionOrder ==
  /\ IsPrefix(Lifecycle, ExpectedLog(NoScene, Started))
  /\ \A s \in Scenes : createState[s] = "running" => currentScene = s

C6_Witness ==
  /\ Len(Started) = 2
  /\ ~isChanging
  /\ Count("destroy", 1) = 1
  /\ Count("unmark", 2) = 1

\* C7: if every create() settles, the manager ends up outside any transition
\* with nothing pending and the most recently requested scene current.
C7_EventuallyLatest ==
  <>[](~isChanging /\ pendingTransition = NoScene /\ currentScene = constructed)

C7_Witness ==
  /\ ~isChanging
  /\ pendingTransition = NoScene
  /\ constructed = 2
  /\ queuedBehind[2] = 1
  /\ createState[1] = "rejected"
  /\ currentScene = 2

\* the request for s was stored while a create() was running and a later
\* request, made while the same create() was running, replaced it
Overwritten(s) ==
  /\ queuedBehind[s] # NoScene
  /\ \E later \in Scenes :
       later > s /\ later <= constructed /\ queuedBehind[later] = queuedBehind[s]

\* C29: when several transitions are requested while one is in flight only
\* the most recent request is executed: a scene whose pending request was
\* overwritten is never attached, never becomes the current scene and never
\* has create(), update(), exit() or destroy() invoked on it.
C29_OverwrittenNeverRuns ==
  \A s \in Scenes :
    Overwritten(s) =>
      /\ s \notin attached
      /\ currentScene # s
      /\ pendingTransition # s
      /\ createState[s] = "none"
      /\ \A i \in 1..Len(log) : log[i][2] # s

\* two requests were made during one create(); the later one has been
\* created and ticked, the earlier one not
C29_Witness ==
  \E s \in Scenes :
    /\ Overwritten(s)
    /\ \E later \in Scenes :
         /\ later > s
         /\ queuedBehind[later] = queuedBehind[s]
         /\ createState[later] = "resolved"
         /\ \E i \in 1..Len(log) : log[i] = <<"update", later>>

\* C31: after SceneManager.destroy() has returned no scene is current or
\* attached and no create(), update(), exit() or destroy() of a scene is
\* invoked, also when destroy() was called with a transition in flight or
\* pending.
C31_DestroyIsFinal ==
  /\ ManagerDestroyed => (currentScene = NoScene /\ attached = {})
  /\ \A i, j \in 1..Len(log) :
       (i < j /\ log[i][1] = "managerDestroyed")
         => log[j][1] \notin {"create", "update", "exit", "destroy"}

\* exit(), removeChild or destroy() has been invoked on s
TornDown(s) ==
  \E i \in 1..Len(log) : log[i] \in {<<"exit", s>>, <<"detach", s>>, <<"destroy", s>>}

\* C30: if exit() or destroy() of the outgoing scene throws during
\* changeScene then, once isChanging is false again, the current scene is
\* not a scene that has been exited, detached or destroyed, and no such
\* scene receives update() ticks.
C30_NoDeadCurrentScene ==
  ((\E i \in 1..Len(log) : log[i][1] = "threw") /\ ~isChanging) =>
    /\ currentScene # NoScene => ~TornDown(currentScene)
    /\ \A i, j \in 1..Len(log) :
         (i < j /\ log[i][1] \in {"exit", "detach", "destroy"})
           => log[j] # <<"update", log[i][2]>>

(***************************************************************************)
(* GameplayScene: the card board                                           *)
(***************************************************************************)
\* private coins: number = 1250
StartCoins == 1250
\* if (this.coins < 50) return; this.coins -= 50
UndoCost == 50
\* if (currentLevel <= 2) showTutorial(...)
TutorialMaxLevel == 2
NoCard == 0

\* callbacks of one kind that may be outstanding at once
MaxFlipTweens == 1
MaxHideTweens == 1
\* moves that may be on the undo history at once
MaxHistory == 3

\* LevelData values the scene is constructed with (ranks only: suits play no
\* part in the rules). covers holds slot numbers counted from 1; slot 7 of the
\* second level does not exist. The third level has a stock of two cards.
Levels ==
  << [wasteCard |-> 5,
      stockPile |-> <<7>>,
      layout    |-> << [rank |-> 6, covers |-> <<2>>],
                       [rank |-> 8, covers |-> <<>>] >>],
     [wasteCard |-> 13,
      stockPile |-> <<5>>,
      layout    |-> << [rank |-> 1, covers |-> <<3>>],
                       [rank |-> 2, covers |-> <<3, 7>>],
                       [rank |-> 3, covers |-> <<>>] >>],
     [wasteCard |-> 5,
      stockPile |-> <<9, 3>>,
      layout    |-> << [rank |-> 4, covers |-> <<>>] >>] >>

\* values of context.progress.currentLevel a level is started with: the Game
\* constructor creates progress without the field (0), checkGameState of
\* earlier levels of the session has raised it
StartLevels == {0, 3}

NumLayout(l) == Len(Levels[l].layout)

NumStock(l) == Len(Levels[l].stockPile)

TotalCards(l) == NumLayout(l) + 1 + NumStock(l)

MaxCards == CHOOSE n \in 1..20 : /\ \E l \in 1..Len(Levels) : n = TotalCards(l)
                                 /\ \A l \in 1..Len(Levels) : TotalCards(l) <= n

Cards == 1..MaxCards

\* cards are numbered in the order the scene constructs them: the layout
\* slots (buildBoard), the waste card, the stock pile (setupVisualStockAndWaste)
LayoutCards(l) == 1..NumLayout(l)

WasteId(l) == NumLayout(l) + 1

StockCards(l) == (NumLayout(l) + 2)..TotalCards(l)

RankOf(l, c) ==
  IF c \in LayoutCards(l) THEN Levels[l].layout[c].rank
  ELSE IF c = WasteId(l) THEN Levels[l].wasteCard
  ELSE IF c \in StockCards(l) THEN Levels[l].stockPile[c - WasteId(l)]
  ELSE 0

Includes(seq, x) == \E i \in 1..Len(seq) : seq[i] = x

ToSet(seq) == {seq[i] : i \in 1..Len(seq)}

Abs(n) == IF n < 0 THEN -n ELSE n

\* the fields the handlers of the scene read and write
Brd ==
  [level |-> levelData, tab |-> tableau, stock |-> stockPile, waste |-> wasteCard,
   hist |-> history, coins |-> coins, up |-> isFaceUp, cov |-> coveredBy,
   mode |-> eventMode, tut |-> tutorialVisible, lvl |-> currentLevel,
   prog |-> progress, store |-> storage, start |-> startLevel, dlg |-> dialog,
   phase |-> phase, tween |-> moveTween, flips |-> flipTweens, hides |-> hideTweens]

SetBrd(b) ==
  /\ levelData' = b.level
  /\ tableau' = b.tab
  /\ stockPile' = b.stock
  /\ wasteCard' = b.waste
  /\ history' = b.hist
  /\ coins' = b.coins
  /\ isFaceUp' = b.up
  /\ coveredBy' = b.cov
  /\ eventMode' = b.mode
  /\ tutorialVisible' = b.tut
  /\ currentLevel' = b.lvl
  /\ progress' = b.prog
  /\ storage' = b.store
  /\ startLevel' = b.start
  /\ dialog' = b.dlg
  /\ phase' = b.phase
  /\ moveTween' = b.tween
  /\ flipTweens' = b.flips
  /\ hideTweens' = b.hides

\* Card.setFaceUp: only face-up cards can be clicked
SetFaceUp(b, c, faceUp) ==
  [b EXCEPT !.up[c] = faceUp, !.mode[c] = IF faceUp THEN "static" ELSE "none"]

AdjacentNoWrap(r1, r2) == Abs(r1 - r2) = 1

\* diff === 1 || diff === 12
Adjacent(r1, r2) == Abs(r1 - r2) = 1 \/ Abs(r1 - r2) = 12

\* Card.canPlayOn, of a card given by its fields
CardCanPlayOn(rank, cardCoveredBy, cardFaceUp, wasteRank) ==
  IF Len(cardCoveredBy) > 0 \/ ~cardFaceUp THEN FALSE
  ELSE Adjacent(rank, wasteRank)

CanPlayOnIgnoresCover(b, c, wasteRank) ==
  b.up[c] /\ Adjacent(RankOf(b.level, c), wasteRank)

\* Card.canPlayOn, of card c of the board
CanPlayOn(b, c, wasteRank) ==
  CardCanPlayOn(RankOf(b.level, c), b.cov[c], b.up[c], wasteRank)

\* the top card of the stock is clickable, the others are not
UpdateStockInteractivity(b) ==
  [b EXCEPT !.mode = [c \in Cards |->
     IF \E i \in 1..Len(b.stock) : b.stock[i] = c
       THEN IF b.stock[Len(b.stock)] = c THEN "static" ELSE "none"
       ELSE @[c]]]

\* gsap.killTweensOf(card): the callbacks its tween still owes never run
KillTweensOf(b, c) == [b EXCEPT !.tween[c] = "none"]

\* updateWasteCard: the card becomes the waste card now; it is turned face up
\* and made unclickable when its move tween starts
UpdateWasteCard(b, newCard) ==
  [KillTweensOf([b EXCEPT !.waste = newCard], newCard) EXCEPT !.tween[newCard] = "toWaste"]

\* showTutorial: visible at once (earlier hide tweens are left running)
ShowTutorial(b) == [b EXCEPT !.tut = TRUE]

\* hideTutorial: the bubble is hidden when the fade-out tween completes
HideTutorial(b) ==
  IF ~b.tut THEN b ELSE [b EXCEPT !.hides = @ + 1]

\* getData of a key that was never set
Null == <<"null">>

DigitChars == <<"0", "1", "2", "3", "4", "5", "6", "7", "8", "9">>

RECURSIVE NumberToString(_)
\* Number.prototype.toString of a non-negative integer: its decimal digits
NumberToString(n) ==
  IF n < 10 THEN <<DigitChars[n + 1]>>
  ELSE NumberToString(n \div 10) \o <<DigitChars[(n % 10) + 1]>>

DigitValue(ch) == CHOOSE d \in 0..9 : DigitChars[d + 1] = ch

IsDigit(ch) == \E d \in 0..9 : DigitChars[d + 1] = ch

RECURSIVE ParseDigits(_, _)
ParseDigits(s, acc) ==
  IF s = <<>> \/ ~IsDigit(Head(s)) THEN acc
  ELSE ParseDigits(Tail(s), 10 * acc + DigitValue(Head(s)))

\* parseInt(s, 10) || 0: the leading digits of s, 0 when there are none
ParseIntOrZero(s) == ParseDigits(s, 0)

\* the keys saveProgress writes, in the order of its setData calls
SavedKeys == <<"highScore", "lastScore", "musicEnabled", "sfxEnabled",
               "musicVolume", "sfxVolume">>

\* the value saveProgress passes to setData for the k-th key (the audio
\* settings are DEFAULT_AUDIO_SETTINGS throughout)
SavedValue(b, k) ==
  CASE k = 1 -> NumberToString(b.prog.highScore)
    [] k = 2 -> NumberToString(b.prog.lastScore)
    [] k = 3 -> <<"t", "r", "u", "e">>
    [] k = 4 -> <<"t", "r", "u", "e">>
    [] k = 5 -> <<"0", ".", "7">>
    [] k = 6 -> <<"0", ".", "8">>

\* Game.saveProgress: the setData calls are awaited one after the other; the
\* first one the platform rejects ends the save (the catch logs a warning).
\* accepted is the number of calls the platform accepts.
SaveProgress(b, accepted) ==
  [b EXCEPT !.store = [key \in DOMAIN b.store |->
     IF \E k \in 1..accepted : SavedKeys[k] = key
       THEN SavedValue(b, CHOOSE k \in 1..accepted : SavedKeys[k] = key)
       ELSE b.store[key]]]

\* outcomes of a save: the platform rejects the first setData call or accepts
\* every call
AcceptedCalls == {0, Len(SavedKeys)}

\* Game.loadProgress into the progress of a newly constructed Game
\* ({ lastScore: 0, highScore: 0 }): only the two scores are read back
LoadProgress(store) ==
  [highScore |-> IF store["highScore"] \notin {Null, <<>>}
                   THEN ParseIntOrZero(store["highScore"]) ELSE 0,
   lastScore |-> IF store["lastScore"] \notin {Null, <<>>}
                   THEN ParseIntOrZero(store["lastScore"]) ELSE 0]

\* the arguments triggerWinDialog passes to showLevelComplete
BaseScoreShown == 1200
StackCardsShown == 5
CardValueShown == 100

NoDialog == [level |-> 0, baseScore |-> 0, stackCardsLeft |-> 0, cardValue |-> 0,
             remainingValue |-> 0, totalScore |-> 0]

\* DialogManager.showLevelComplete: the rows of the dialog
ShowLevelComplete(level, baseScore, stackCardsLeft, cardValue) ==
  [level |-> level, baseScore |-> baseScore, stackCardsLeft |-> stackCardsLeft,
   cardValue |-> cardValue,
   remainingValue |-> stackCardsLeft * cardValue,
   totalScore |-> baseScore + stackCardsLeft * cardValue]

\* triggerWinDialog
TriggerWinDialog(b) ==
  [b EXCEPT !.dlg = ShowLevelComplete(IF b.lvl = 0 THEN 1 ELSE b.lvl,
                                      BaseScoreShown, StackCardsShown, CardValueShown)]

\* triggerWinEffect: input on the ui layer and on the world layer is blocked
TriggerWinEffect(b) == [b EXCEPT !.phase = "winFx"]

HasMoves(b) ==
  \E i \in 1..Len(b.tab) :
    /\ Len(b.cov[b.tab[i]]) = 0
    /\ Adjacent(RankOf(b.level, b.tab[i]), RankOf(b.level, b.waste))

\* checkGameState
CheckGameState(b, accepted) ==
  IF Len(b.tab) = 0
    THEN TriggerWinEffect(SaveProgress(
           [b EXCEPT !.lvl = (IF @ = 0 THEN 1 ELSE @) + 1], accepted))
    ELSE IF ~HasMoves(b) THEN ShowTutorial(b) ELSE b

RECURSIVE Uncover(_, _, _)
\* coveredCards.forEach: drop the played card from coveredBy and schedule the
\* flip of a card that is left uncovered and face down
Uncover(b, cards, clicked) ==
  IF cards = <<>> THEN b
  ELSE LET bc == Head(cards)
           cb == SelectSeq(b.cov[bc], LAMBDA x : x # clicked)
           b1 == [b EXCEPT !.cov[bc] = cb,
                           !.flips[bc] = IF cb = <<>> /\ ~b.up[bc] THEN @ + 1 ELSE @]
       IN Uncover(b1, Tail(cards), clicked)

\* handleCardClick
HandleCardClick(b, clickedCard, accepted) ==
  IF ~CanPlayOn(b, clickedCard, RankOf(b.level, b.waste)) THEN b
  ELSE LET coveredCards == SelectSeq(b.tab, LAMBDA x : Includes(b.cov[x], clickedCard))
           flippedCards == SelectSeq(coveredCards, LAMBDA x : Len(b.cov[x]) = 1 /\ ~b.up[x])
           rec == [type |-> "tableau", playedCard |-> clickedCard,
                   previousWaste |-> b.waste, flippedCards |-> flippedCards,
                   coveredCards |-> coveredCards]
           b1 == [b EXCEPT !.hist = Append(@, rec),
                           !.tab = SelectSeq(@, LAMBDA x : x # clickedCard)]
           b2 == UpdateWasteCard(b1, clickedCard)
           b3 == Uncover(b2, coveredCards, clickedCard)
       IN CheckGameState(HideTutorial(b3), accepted)

DrawStockNoRecord(b) ==
  IF Len(b.stock) = 0 THEN b
  ELSE LET drawnCard == b.stock[Len(b.stock)]
           b1 == [b EXCEPT !.stock = SubSeq(@, 1, Len(@) - 1)]
       IN HideTutorial(UpdateStockInteractivity(UpdateWasteCard(b1, drawnCard)))

\* drawStock
DrawStock(b) ==
  IF Len(b.stock) = 0 THEN b
  ELSE LET drawnCard == b.stock[Len(b.stock)]
           rec == [type |-> "stock", playedCard |-> drawnCard,
                   previousWaste |-> b.waste, flippedCards |-> <<>>,
                   coveredCards |-> <<>>]
           b1 == [b EXCEPT !.stock = SubSeq(@, 1, Len(@) - 1),
                           !.hist = Append(@, rec)]
       IN HideTutorial(UpdateStockInteractivity(UpdateWasteCard(b1, drawnCard)))

RECURSIVE FlipBack(_, _)
\* last.flippedCards.forEach(c => c.setFaceUp(false))
FlipBack(b, cards) ==
  IF cards = <<>> THEN b
  ELSE FlipBack(SetFaceUp(b, Head(cards), FALSE), Tail(cards))

RECURSIVE Recover(_, _, _)
\* last.coveredCards.forEach(c => c.coveredBy.push(cardToReturn))
Recover(b, cards, cardToReturn) ==
  IF cards = <<>> THEN b
  ELSE Recover([b EXCEPT !.cov[Head(cards)] = Append(@, cardToReturn)],
               Tail(cards), cardToReturn)

UndoStockToTableau(b, last) ==
  [KillTweensOf([b EXCEPT !.tab = Append(@, last.playedCard)], last.playedCard)
     EXCEPT !.tween[last.playedCard] = "toStock"]

UndoStockToBottom(b, last) ==
  [KillTweensOf([b EXCEPT !.stock = <<last.playedCard>> \o @], last.playedCard)
     EXCEPT !.tween[last.playedCard] = "toStock"]

\* undoMove, the 'stock' branch
UndoStock(b, last) ==
  [KillTweensOf([b EXCEPT !.stock = Append(@, last.playedCard)], last.playedCard)
     EXCEPT !.tween[last.playedCard] = "toStock"]

\* undoMove, the 'tableau' branch
UndoTableau(b, last) ==
  LET b1 == [b EXCEPT !.tab = Append(@, last.playedCard)]
      b2 == FlipBack(b1, last.flippedCards)
      b3 == Recover(b2, last.coveredCards, last.playedCard)
  IN [KillTweensOf(b3, last.playedCard) EXCEPT !.tween[last.playedCard] = "toTableau"]

UndoMoveOnCredit(b) ==
  IF Len(b.hist) = 0 THEN b
  ELSE LET last == b.hist[Len(b.hist)]
           b1 == [b EXCEPT !.coins = @ - UndoCost,
                           !.hist = SubSeq(@, 1, Len(@) - 1),
                           !.waste = last.previousWaste]
       IN IF last.type = "stock" THEN UndoStock(b1, last) ELSE UndoTableau(b1, last)

\* undoMove
UndoMove(b) ==
  IF Len(b.hist) = 0 THEN b
  ELSE IF b.coins < UndoCost THEN b
  ELSE LET last == b.hist[Len(b.hist)]
           b1 == [b EXCEPT !.coins = @ - UndoCost,
                           !.hist = SubSeq(@, 1, Len(@) - 1),
                           !.waste = last.previousWaste]
       IN IF last.type = "stock" THEN UndoStock(b1, last) ELSE UndoTableau(b1, last)

InitialCoveredByInverted(l, i, cov) ==
  [c \in Cards |->
     IF c \in LayoutCards(l)
       THEN SelectSeq(Levels[l].layout[c].covers, LAMBDA x : x \in LayoutCards(l))
       ELSE <<>>]

RECURSIVE InitialCoveredBy(_, _, _)
\* buildBoard, second loop: slot i's card is pushed onto the coveredBy of every
\* existing slot that slot i lists in covers
InitialCoveredBy(l, i, cov) ==
  IF i > NumLayout(l) THEN cov
  ELSE LET below == Levels[l].layout[i].covers
           next == [c \in Cards |->
                      cov[c] \o SelectSeq(below, LAMBDA x : x = c /\ c \in LayoutCards(l))]
           pushed == [c \in Cards |-> [k \in 1..Len(next[c]) |->
                        IF k <= Len(cov[c]) THEN cov[c][k] ELSE i]]
       IN InitialCoveredBy(l, i + 1, pushed)

\* the scene as constructed with level l and after create(): buildBoard,
\* setupVisualStockAndWaste, setupUI and the first tutorial
CreatedBoard(l, progressLevel) ==
  LET cov == InitialCoveredBy(l, 1, [c \in Cards |-> <<>>])
      k   == NumStock(l)
  IN [level |-> l,
      tab   |-> [i \in 1..NumLayout(l) |-> i],
      stock |-> [i \in 1..k |-> WasteId(l) + i],
      waste |-> WasteId(l),
      hist  |-> <<>>,
      coins |-> StartCoins,
      up    |-> [c \in Cards |-> \/ (c \in LayoutCards(l) /\ Len(cov[c]) = 0)
                                 \/ c = WasteId(l)],
      cov   |-> cov,
      mode  |-> [c \in Cards |->
                   IF (c \in LayoutCards(l) /\ Len(cov[c]) = 0) \/ c = WasteId(l)
                        \/ (k > 0 /\ c = WasteId(l) + k)
                     THEN "static" ELSE "none"],
      tut   |-> (IF progressLevel = 0 THEN 1 ELSE progressLevel) <= TutorialMaxLevel,
      lvl   |-> progressLevel,
      prog  |-> [lastScore |-> 0, highScore |-> 0],
      store |-> [key \in ToSet(SavedKeys) |-> Null],
      start |-> progressLevel,
      dlg   |-> NoDialog,
      phase |-> "playing",
      tween |-> [c \in Cards |-> "none"],
      flips |-> [c \in Cards |-> 0],
      hides |-> 0]

\* what the undo identity compares
BoardView(b) ==
  [tab |-> ToSet(b.tab), stock |-> b.stock, waste |-> b.waste, up |-> b.up,
   cov |-> [c \in Cards |-> ToSet(b.cov[c])]]

NoView == [ok |-> FALSE, view |-> BoardView(CreatedBoard(1, 1))]

\* no animation callback that touches a card is outstanding
Settled_(b) == \A c \in Cards : b.tween[c] = "none" /\ b.flips[c] = 0

WithinBounds(b) ==
  /\ \A c \in Cards : b.flips[c] <= MaxFlipTweens
  /\ b.hides <= MaxHideTweens
  /\ Len(b.hist) <= MaxHistory

\* new GameplayScene(context, levelData) followed by its create()
CreateLevel ==
  /\ phase = "constructed"
  /\ \E l \in 1..Len(Levels), p \in StartLevels : SetBrd(CreatedBoard(l, p))
  /\ UNCHANGED <<beforeMove, expected>>

\* the pointerdown listener of layout card c runs: handleCardClick(c)
CardClicked(c) ==
  /\ phase = "playing"
  /\ eventMode[c] = "static"
  /\ \E accepted \in AcceptedCalls :
       LET b == HandleCardClick(Brd, c, accepted) IN
         /\ accepted = Len(SavedKeys) \/ b.phase = "winFx"
         /\ WithinBounds(b)
         /\ SetBrd(b)
         /\ IF b = Brd
              THEN UNCHANGED <<beforeMove, expected>>
              ELSE /\ beforeMove' = IF Settled_(Brd) /\ Includes(tableau, c)
                                      THEN [ok |-> TRUE, view |-> BoardView(Brd)]
                                      ELSE NoView
                   /\ expected' = NoView

\* pointerdown on a layout card (the listener buildBoard installs)
CardPointerDown ==
  /\ phase = "playing"
  /\ \E c \in LayoutCards(levelData) : CardClicked(c)

\* pointerdown on a card created for the stock pile
StockPointerDown ==
  /\ phase = "playing"
  /\ \E c \in StockCards(levelData) : eventMode[c] = "static"
  /\ LET b == DrawStock(Brd) IN
       /\ WithinBounds(b)
       /\ SetBrd(b)
       /\ IF b = Brd
            THEN UNCHANGED <<beforeMove, expected>>
            ELSE /\ beforeMove' = IF Settled_(Brd)
                                    THEN [ok |-> TRUE, view |-> BoardView(Brd)]
                                    ELSE NoView
                 /\ expected' = NoView

\* pointerup on the undo button of the ui layer
UndoPointerUp ==
  /\ phase \in {"playing", "closing", "dismissed"}
  /\ LET b == UndoMove(Brd) IN
       /\ SetBrd(b)
       /\ IF b = Brd
            THEN UNCHANGED <<beforeMove, expected>>
            ELSE /\ expected' = beforeMove
                 /\ beforeMove' = NoView

\* onStart of the move tween of a card
MoveTweenStart ==
  \E c \in Cards :
    /\ moveTween[c] \in {"toWaste", "toStock", "toTableau"}
    /\ SetBrd(CASE moveTween[c] = "toWaste" ->
                     [SetFaceUp(Brd, c, TRUE) EXCEPT !.mode[c] = "none", !.tween[c] = "none"]
                [] moveTween[c] = "toStock" ->
                     [SetFaceUp(Brd, c, FALSE) EXCEPT !.tween[c] = "toStockStarted"]
                [] moveTween[c] = "toTableau" ->
                     [Brd EXCEPT !.mode[c] = "static", !.tween[c] = "none"])
    /\ UNCHANGED <<beforeMove, expected>>

\* onComplete of the tween that returns a card to the stock
MoveTweenComplete ==
  \E c \in Cards :
    /\ moveTween[c] = "toStockStarted"
    /\ SetBrd(UpdateStockInteractivity([Brd EXCEPT !.tween[c] = "none"]))
    /\ UNCHANGED <<beforeMove, expected>>

\* onComplete of a flip tween: boardCard.setFaceUp(true)
FlipComplete ==
  \E c \in Cards :
    /\ flipTweens[c] > 0
    /\ SetBrd([SetFaceUp(Brd, c, TRUE) EXCEPT !.flips[c] = @ - 1])
    /\ UNCHANGED <<beforeMove, expected>>

\* onComplete of a hide tween of the tutorial bubble
HideComplete ==
  /\ hideTweens > 0
  /\ SetBrd([Brd EXCEPT !.tut = FALSE, !.hides = @ - 1])
  /\ UNCHANGED <<beforeMove, expected>>

\* the 3.5 s timer of triggerWinEffect: the ui layer takes input again and the
\* level-complete dialog covers it
WinTimer ==
  /\ phase = "winFx"
  /\ SetBrd(TriggerWinDialog([Brd EXCEPT !.phase = "dialog"]))
  /\ UNCHANGED <<beforeMove, expected>>

\* pointerdown on the dialog overlay: closeDialog without the callback
DialogClickOutside ==
  /\ phase = "dialog"
  /\ SetBrd([Brd EXCEPT !.phase = "dismissed"])
  /\ UNCHANGED <<beforeMove, expected>>

\* pointerup on the Continue button: closeDialog with the callback
DialogContinue ==
  /\ phase = "dialog"
  /\ SetBrd([Brd EXCEPT !.phase = "closing"])
  /\ UNCHANGED <<beforeMove, expected>>

\* the overlay has faded: onContinue requests the MenuScene
DialogClosed ==
  /\ phase = "closing"
  /\ SetBrd([Brd EXCEPT !.phase = "left"])
  /\ UNCHANGED <<beforeMove, expected>>

\* the page is loaded again after a level was completed: a new Game, whose
\* init() calls loadProgress; no scene has been created yet
Reload ==
  /\ phase \in {"dialog", "dismissed", "closing", "left"}
  /\ SetBrd([Brd EXCEPT !.phase = "reloaded",
                        !.level = 0,
                        !.lvl = 0,
                        !.prog = LoadProgress(storage),
                        !.dlg = NoDialog,
                        !.tab = <<>>, !.stock = <<>>, !.waste = NoCard, !.hist = <<>>,
                        !.coins = StartCoins,
                        !.up = [c \in Cards |-> FALSE],
                        !.cov = [c \in Cards |-> <<>>],
                        !.mode = [c \in Cards |-> "none"],
                        !.tut = FALSE,
                        !.tween = [c \in Cards |-> "none"],
                        !.flips = [c \in Cards |-> 0],
                        !.hides = 0])
  /\ beforeMove' = NoView
  /\ expected' = NoView

BoardInit ==
  /\ levelData = 0
  /\ tableau = <<>>
  /\ stockPile = <<>>
  /\ wasteCard = NoCard
  /\ history = <<>>
  /\ coins = StartCoins
  /\ isFaceUp = [c \in Cards |-> FALSE]
  /\ coveredBy = [c \in Cards |-> <<>>]
  /\ eventMode = [c \in Cards |-> "none"]
  /\ tutorialVisible = FALSE
  /\ currentLevel = 0
  /\ progress = [lastScore |-> 0, highScore |-> 0]
  /\ storage = [key \in ToSet(SavedKeys) |-> Null]
  /\ startLevel = 0
  /\ dialog = NoDialog
  /\ phase = "constructed"
  /\ moveTween = [c \in Cards |-> "none"]
  /\ flipTweens = [c \in Cards |-> 0]
  /\ hideTweens = 0
  /\ beforeMove = NoView
  /\ expected = NoView

(***************************************************************************)
(* Card.canPlayOn on its own                                               *)
(***************************************************************************)
\* ranks run from 1 (ace) to MaxRank (king)
MaxRank == 13
\* cards that may lie on the card canPlayOn is asked about
MaxCover == 2

Ranks == 1..MaxRank

NoCall == [called |-> FALSE, rank |-> 1, covered |-> 0, faceUp |-> FALSE,
           wasteRank |-> 1, result |-> FALSE]

\* card.canPlayOn(wasteRank) on a card of the given rank with `covered` cards
\* in coveredBy
CanPlayOnCalled ==
  \E rank \in Ranks, covered \in 0..MaxCover, faceUp \in BOOLEAN, wasteRank \in Ranks :
    canPlay' = [called |-> TRUE, rank |-> rank, covered |-> covered, faceUp |-> faceUp,
                wasteRank |-> wasteRank,
                result |-> CardCanPlayOn(rank, [i \in 1..covered |-> i], faceUp, wasteRank)]

CardInit == canPlay = NoCall

\* C15: canPlayOn(wasteRank) is true exactly when coveredBy is empty, the card
\* is face up and the ranks differ by 1 or by 12; so it accepts the rank pairs
\* (13, 1) and (1, 13) and rejects (1, 3).
C15_CanPlayOn ==
  canPlay.called =>
    /\ canPlay.result <=>
         /\ canPlay.covered = 0
         /\ canPlay.faceUp
         /\ canPlay.rank - canPlay.wasteRank \in {1, -1, 12, -12}
    /\ (canPlay.covered = 0 /\ canPlay.faceUp) =>
         /\ (canPlay.rank = 13 /\ canPlay.wasteRank = 1) => canPlay.result
         /\ (canPlay.rank = 1 /\ canPlay.wasteRank = 13) => canPlay.result
         /\ (canPlay.rank = 1 /\ canPlay.wasteRank = 3) => ~canPlay.result

\* a king that is face up and uncovered has been accepted on an ace
C15_Witness ==
  /\ canPlay.called
  /\ canPlay.rank = 13
  /\ canPlay.wasteRank = 1
  /\ canPlay.covered = 0
  /\ canPlay.faceUp
  /\ canPlay.result

(***************************************************************************)
(* Claims about the board                                                  *)
(***************************************************************************)
\* a level has been created and its scene is the one on screen
Loaded == phase \notin {"constructed", "reloaded"}

WasteRank == RankOf(levelData, wasteCard)

\* C8: a legal move (a play of a playable tableau card, a draw from a
\* non-empty stock) followed by undo restores the tableau card set, the stock
\* order, every coveredBy set, every face-up flag and the waste card to their
\* values before the move, whenever the undo comes relative to the move's
\* deferred callbacks. expected holds the board as it was before the move
\* that has just been undone; the comparison is made once every callback
\* that was outstanding has run.
C8_UndoRestores ==
  (expected.ok /\ Settled_(Brd)) => BoardView(Brd) = expected.view

\* C9: every tableau card whose coveredBy is non-empty is face down and is
\* not playable on the waste card.
C9_CoveredFaceDown ==
  Loaded =>
    \A i \in 1..Len(tableau) :
      Len(coveredBy[tableau[i]]) > 0 =>
        /\ ~isFaceUp[tableau[i]]
        /\ ~CanPlayOn(Brd, tableau[i], WasteRank)

NoDuplicates(seq) == \A i, j \in 1..Len(seq) : i # j => seq[i] # seq[j]

StockRecords == {i \in 1..Len(history) : history[i].type = "stock"}

LastRecord == history[Len(history)]

\* the last thing the player did was a play of a tableau card, made on a board
\* with no callback outstanding, and every callback of the play has run
JustPlayed ==
  /\ Loaded
  /\ beforeMove.ok
  /\ history # <<>>
  /\ LastRecord.type = "tableau"
  /\ Settled_(Brd)

\* C11: after a legal play of card X (and once the flips it started have
\* completed) every tableau card X covered whose coveredBy has become empty is
\* face up, and every card X covered whose coveredBy is still non-empty is
\* face down.
C11_CoverageAfterPlay ==
  JustPlayed =>
    \A i \in 1..Len(LastRecord.coveredCards) :
      LET c == LastRecord.coveredCards[i] IN
        /\ coveredBy[c] = <<>> => isFaceUp[c]
        /\ coveredBy[c] # <<>> => ~isFaceUp[c]

\* the level has been completed in this run of the page
Won == phase \in {"winFx", "dialog", "dismissed", "closing", "left"}

\* progress.currentLevel || 1
LevelOr1(l) == IF l = 0 THEN 1 ELSE l

\* the platform accepted the setData calls of the save
SaveAccepted == \A key \in DOMAIN storage : storage[key] # Null

\* C12: when a legal play empties the tableau, progress.currentLevel is
\* incremented by exactly 1 and, the platform accepting the save, the
\* incremented value is in platform storage, so that the loadProgress of the
\* next run of the page reads the incremented level.
C12_LevelPersisted ==
  /\ Won =>
       /\ currentLevel = LevelOr1(startLevel) + 1
       /\ SaveAccepted =>
            \E key \in DOMAIN storage : storage[key] = NumberToString(currentLevel)
  /\ (phase = "reloaded" /\ SaveAccepted) =>
       currentLevel = LevelOr1(startLevel) + 1

\* the fields of the board the claims call the game state
gameState == <<tableau, stockPile, wasteCard, history, coins, coveredBy, isFaceUp>>

\* C13: an undo with an empty history or with fewer than 50 coins changes
\* nothing: no record is popped, no coins are deducted, and tableau,
\* stockPile, wasteCard, the coveredBy sets and the face-up flags stay.
C13_RefusedUndo ==
  [][(UndoPointerUp /\ (history = <<>> \/ coins < UndoCost)) => UNCHANGED gameState]_vars

\* the undo button is live, there is a move to undo and the coins do not pay
\* for it: the tap on the button is refused
C13_Witness ==
  /\ phase = "playing"
  /\ history # <<>>
  /\ coins < UndoCost

\* card c is covered, face down or not rank-adjacent to the waste card
FailsPrecondition(c) ==
  \/ Len(coveredBy[c]) > 0
  \/ ~isFaceUp[c]
  \/ RankOf(levelData, c) - WasteRank \notin {1, -1, 12, -12}

\* C14: a click on a tableau card that fails the play precondition (covered,
\* face down or not rank-adjacent to the waste card) changes no game state:
\* tableau, stockPile, wasteCard, history, coins, coveredBy and the face-up
\* flags stay.
C14_RejectedClick ==
  [][\A c \in Cards :
       (CardClicked(c) /\ Includes(tableau, c) /\ FailsPrecondition(c))
         => UNCHANGED gameState]_vars

\* a tableau card that takes clicks although it is covered, with a waste card
\* it would otherwise be playable on
C14_Witness ==
  /\ phase = "playing"
  /\ \E i \in 1..Len(tableau) :
       /\ eventMode[tableau[i]] = "static"
       /\ Len(coveredBy[tableau[i]]) > 0
       /\ Adjacent(RankOf(levelData, tableau[i]), WasteRank)

\* C16: drawStock on a non-empty stock removes exactly the last (top) card
\* of stockPile, makes it the waste card and pushes exactly one stock-type
\* record whose previousWaste is the waste card of before; on an empty stock
\* it changes nothing and records nothing.
C16_DrawStock ==
  [][StockPointerDown =>
       IF stockPile # <<>>
         THEN /\ stockPile' = SubSeq(stockPile, 1, Len(stockPile) - 1)
              /\ wasteCard' = stockPile[Len(stockPile)]
              /\ Len(history') = Len(history) + 1
              /\ SubSeq(history', 1, Len(history)) = history
              /\ history'[Len(history')].type = "stock"
              /\ history'[Len(history')].playedCard = stockPile[Len(stockPile)]
              /\ history'[Len(history')].previousWaste = wasteCard
              /\ UNCHANGED <<tableau, coins, coveredBy>>
         ELSE UNCHANGED gameState]_vars

\* the top card of the stock has just been drawn, the stock is empty and the
\* drawn card still takes the click that calls drawStock again
C16_Witness ==
  /\ phase = "playing"
  /\ stockPile = <<>>
  /\ history # <<>>
  /\ LastRecord.type = "stock"
  /\ wasteCard = LastRecord.playedCard
  /\ eventMode[wasteCard] = "static"

\* C17: after a tableau play that leaves the tableau non-empty, and once the
\* pending animation callbacks have run, the tutorial bubble (the
\* draw-from-stock hint) is visible if and only if no uncovered tableau card
\* is rank-adjacent (difference 1 or 12) to the waste card.
C17_HintFlag ==
  (JustPlayed /\ tableau # <<>> /\ hideTweens = 0) =>
    (tutorialVisible <=> ~HasMoves(Brd))

\* C18: at level completion the stock bonus the dialog reports equals the
\* number of cards remaining in stockPile at that moment multiplied by the
\* per-card value.
C18_StockBonus ==
  phase = "dialog" =>
    /\ dialog.stackCardsLeft = Len(stockPile)
    /\ dialog.remainingValue = Len(stockPile) * dialog.cardValue

\* C37: after a level is loaded tableau card j's coveredBy contains card i
\* exactly when j is listed in layout[i].covers (indices outside the layout
\* being ignored), and a tableau card starts face up exactly when its
\* coveredBy is empty.
C37_InitialCovers ==
  [][CreateLevel =>
       \A j \in LayoutCards(levelData') :
         /\ \A i \in LayoutCards(levelData') :
              Includes(coveredBy'[j], i)
                <=> Includes(Levels[levelData'].layout[i].covers, j)
         /\ isFaceUp'[j] <=> coveredBy'[j] = <<>>]_vars

\* the level whose slot 2 lists an index outside the layout has just been
\* loaded: card 3 lies under cards 1 and 2
C37_Witness ==
  /\ phase = "playing"
  /\ levelData = 2
  /\ history = <<>>
  /\ coins = StartCoins
  /\ coveredBy[3] = <<1, 2>>
  /\ ~isFaceUp[3]
  /\ isFaceUp[1] /\ isFaceUp[2]
  /\ \E x \in ToSet(Levels[2].layout[2].covers) : x \notin LayoutCards(2)

\* the order buildBoard gives the stock pile of the level
InitialStock == CreatedBoard(levelData, 0).stock

\* C38: across every sequence of draws and undos stockPile is a prefix of the
\* level's initial stock order: cards leave only from the top and an undone
\* draw puts its card back on top, at its original position.
C38_StockPrefix ==
  Loaded =>
    /\ Len(stockPile) <= Len(InitialStock)
    /\ stockPile = SubSeq(InitialStock, 1, Len(stockPile))

\* a draw has been undone: the card is back on top of the stock
C38_Witness ==
  /\ phase = "playing"
  /\ coins < StartCoins
  /\ Len(InitialStock) = 2
  /\ stockPile = InitialStock
  /\ history = <<>>

\* C33: after the level is complete every way of closing the level-complete
\* dialog ends in the transition to the MenuScene being requested: once the
\* dialog has been shown and is open no more, its callback is armed (the
\* overlay is fading) or has requested the transition.
C33_ClosedDialogLeaves ==
  (dialog # NoDialog /\ phase # "dialog") => phase \in {"closing", "left"}

\* C27: a card that has been played to the waste, whether it is the waste
\* card or a former one, is not accepted as a play again unless an undo has
\* returned it to the tableau, even when it is clicked before the onStart of
\* its move tween has disabled its input: every accepted click is on a card
\* of the tableau.
C27_NoReplay ==
  [][\A c \in Cards :
       (phase = "playing" /\ c \in LayoutCards(levelData) /\ CardClicked(c)
          /\ history' # history)
         => Includes(tableau, c)]_vars

\* C28: across every sequence of plays, draws and undos in a level
\* tableau.length + stockPile.length + history.length + 1 equals the number
\* of cards of the level (tableau cards, stock cards and the first waste
\* card).
C28_HistoryBounded ==
  Loaded =>
    Len(tableau) + Len(stockPile) + Len(history) + 1 = TotalCards(levelData)

(***************************************************************************)
(* Game: init() and the orientation lock                                   *)
(***************************************************************************)
\* the fields checkOrientation and its helpers read and write
Gm == [isPortrait |-> isPortrait, screen |-> screenPortrait,
       overlay |-> portraitOverlay, display |-> overlayDisplay,
       speed |-> tickerSpeed]

SetGm(g) ==
  /\ isPortrait' = g.isPortrait
  /\ screenPortrait' = g.screen
  /\ portraitOverlay' = g.overlay
  /\ overlayDisplay' = g.display
  /\ tickerSpeed' = g.speed

\* LayoutSystem.isPortrait: app.screen.width < app.screen.height
LayoutIsPortrait(g) == g.screen

\* showPortraitOverlay / hidePortraitOverlay: nothing without an overlay
ShowPortraitOverlay(g) == IF g.overlay THEN [g EXCEPT !.display = "flex"] ELSE g

HidePortraitOverlay(g) == IF g.overlay THEN [g EXCEPT !.display = "none"] ELSE g

PauseGame(g) == [g EXCEPT !.speed = 0]

ResumeGame(g) == [g EXCEPT !.speed = 1]

\* checkOrientation
CheckOrientation(g) ==
  LET wasPortrait == g.isPortrait
      g1 == [g EXCEPT !.isPortrait = LayoutIsPortrait(g)]
  IN IF g1.isPortrait /\ ~wasPortrait THEN PauseGame(ShowPortraitOverlay(g1))
     ELSE IF ~g1.isPortrait /\ wasPortrait THEN ResumeGame(HidePortraitOverlay(g1))
     ELSE g1

\* createPortraitOverlay: the element is created with display: none
CreatePortraitOverlay(g) == [g EXCEPT !.overlay = TRUE, !.display = "none"]

PlatformStepUncaught(outcome) ==
  [stage |-> IF outcome = "resolved" THEN "awaitApp" ELSE "failed",
   defaults |-> FALSE]

\* await withTimeout(platform.initialize(), 3000, ...).catch(warn): how init()
\* goes on when the race settles with outcome "resolved", "rejected" or
\* "timeout"
PlatformStep(outcome) ==
  [stage |-> "awaitApp", defaults |-> outcome # "resolved"]

\* init() resumes after the platform step (the player name it logs is raced
\* against a resolved promise and holds nothing up), reads the window's size,
\* calls app.init({ width, height, ... }) and parks at that await
AfterPlatform(outcome) ==
  /\ initStage' = PlatformStep(outcome).stage
  /\ usedDefaults' = PlatformStep(outcome).defaults
  /\ screenPortrait' = IF PlatformStep(outcome).stage = "awaitApp"
                         THEN windowPortrait ELSE screenPortrait

\* init() up to its first await: platform.initialize() is called and the
\* timeout is armed
StartInit ==
  /\ initStage = "constructed"
  /\ initStage' = "awaitPlatform"
  /\ platformPromise' = "pending"
  /\ timeoutTimer' = "armed"
  /\ UNCHANGED <<usedDefaults, loadingStarted, windowPortrait, screenPortrait,
                 isPortrait, portraitOverlay, overlayDisplay, tickerSpeed,
                 checkedSinceRotate>>

\* the promise of platform.initialize() resolves
PlatformResolves ==
  /\ platformPromise = "pending"
  /\ platformPromise' = "resolved"
  /\ IF initStage = "awaitPlatform"
       THEN AfterPlatform("resolved")
       ELSE UNCHANGED <<initStage, usedDefaults, screenPortrait>>
  /\ UNCHANGED <<timeoutTimer, loadingStarted, windowPortrait, isPortrait,
                 portraitOverlay, overlayDisplay, tickerSpeed, checkedSinceRotate>>

\* the promise of platform.initialize() rejects
PlatformRejects ==
  /\ platformPromise = "pending"
  /\ platformPromise' = "rejected"
  /\ IF initStage = "awaitPlatform"
       THEN AfterPlatform("rejected")
       ELSE UNCHANGED <<initStage, usedDefaults, screenPortrait>>
  /\ UNCHANGED <<timeoutTimer, loadingStarted, windowPortrait, isPortrait,
                 portraitOverlay, overlayDisplay, tickerSpeed, checkedSinceRotate>>

\* the timer of withTimeout fires; its rejection is lost when the race has
\* settled already
TimeoutFires ==
  /\ timeoutTimer = "armed"
  /\ timeoutTimer' = "fired"
  /\ IF initStage = "awaitPlatform"
       THEN AfterPlatform("timeout")
       ELSE UNCHANGED <<initStage, usedDefaults, screenPortrait>>
  /\ UNCHANGED <<platformPromise, loadingStarted, windowPortrait, isPortrait,
                 portraitOverlay, overlayDisplay, tickerSpeed, checkedSinceRotate>>

\* app.init() resolves: the canvas is appended, checkOrientation() runs, then
\* createPortraitOverlay(), and init() parks at await loadProgress()
AppInitResolves ==
  /\ initStage = "awaitApp"
  /\ initStage' = "awaitProgress"
  /\ SetGm(CreatePortraitOverlay(CheckOrientation(Gm)))
  /\ checkedSinceRotate' = TRUE
  /\ UNCHANGED <<platformPromise, timeoutTimer, usedDefaults, loadingStarted,
                 windowPortrait>>

\* loadProgress() settles (a getData that rejects is caught inside it) and
\* startLoadingScene() calls changeScene(new LoadingScene)
ProgressLoaded ==
  /\ initStage = "awaitProgress"
  /\ initStage' = "loadingScene"
  /\ loadingStarted' = TRUE
  /\ UNCHANGED <<platformPromise, timeoutTimer, usedDefaults, windowPortrait,
                 screenPortrait, isPortrait, portraitOverlay, overlayDisplay,
                 tickerSpeed, checkedSinceRotate>>

\* changeScene resolves: the ticker callbacks are added and isInitialized is set
LoadingSceneCreated ==
  /\ initStage = "loadingScene"
  /\ initStage' = "initialized"
  /\ UNCHANGED <<platformPromise, timeoutTimer, usedDefaults, loadingStarted,
                 windowPortrait, screenPortrait, isPortrait, portraitOverlay,
                 overlayDisplay, tickerSpeed, checkedSinceRotate>>

\* changeScene rejects (LoadingScene.create() threw): init() logs and rethrows
LoadingSceneFails ==
  /\ initStage = "loadingScene"
  /\ initStage' = "failed"
  /\ UNCHANGED <<platformPromise, timeoutTimer, usedDefaults, loadingStarted,
                 windowPortrait, screenPortrait, isPortrait, portraitOverlay,
                 overlayDisplay, tickerSpeed, checkedSinceRotate>>

\* the player rotates the device; nothing of the Game listens to it
Rotate ==
  /\ windowPortrait' = ~windowPortrait
  /\ checkedSinceRotate' = FALSE
  /\ UNCHANGED <<initStage, platformPromise, timeoutTimer, usedDefaults,
                 loadingStarted, screenPortrait, isPortrait, portraitOverlay,
                 overlayDisplay, tickerSpeed>>

\* handleOrientationTick, called by the ticker on every frame (a ticker of
\* speed 0 still calls its listeners)
OrientationTick ==
  /\ initStage = "initialized"
  /\ SetGm(CheckOrientation(Gm))
  /\ checkedSinceRotate' = TRUE
  /\ UNCHANGED <<initStage, platformPromise, timeoutTimer, usedDefaults,
                 loadingStarted, windowPortrait>>

\* a new Game: the device is in landscape until the player rotates it
GameInit ==
  /\ initStage = "constructed"
  /\ platformPromise = "none"
  /\ timeoutTimer = "none"
  /\ usedDefaults = FALSE
  /\ loadingStarted = FALSE
  /\ windowPortrait = FALSE
  /\ screenPortrait = FALSE
  /\ isPortrait = FALSE
  /\ portraitOverlay = FALSE
  /\ overlayDisplay = "none"
  /\ tickerSpeed = 1
  /\ checkedSinceRotate = FALSE

(***************************************************************************)
(* Game claims                                                             *)
(***************************************************************************)
\* C19: at every point after init has completed (and the orientation has
\* been checked since the device last rotated) the blocking overlay is shown
\* and ticking is paused exactly when the device is in portrait orientation,
\* including when the game starts in portrait; both are undone once the
\* device is back in landscape.
C19_PortraitBlocked ==
  (initStage = "initialized" /\ checkedSinceRotate) =>
    /\ (overlayDisplay = "flex") <=> windowPortrait
    /\ (tickerSpeed = 0) <=> windowPortrait

MaxResumes == 2
\* calls recorded before the unlock
MaxEarly == 2

NoTrack == "null"
\* volumes are kept in tenths: 1 is FullVolume
FullVolume == 10
DefaultMusicVolume == 7
VolumeInputs == {-5, 3, 15}
MusicTracks == {"bgm_menu", "bgm_gameplay"}
SfxTracks == {"sfx_click"}
\* DEFAULT_AUDIO_REGISTRY (one of its three effects)
Registry == MusicTracks \cup SfxTracks

Aud == [unlocked |-> isUnlocked, pending |-> pendingMusic, current |-> currentMusic,
        instance |-> currentMusicInstance, registered |-> registeredSounds,
        failed |-> failedSounds, musicOn |-> musicEnabled, sfxOn |-> sfxEnabled,
        ctx |-> audioContext, resumes |-> resumes, playing |-> playing,
        plays |-> soundPlays, volume |-> musicVolume]

SetAud(a) ==
  /\ isUnlocked' = a.unlocked
  /\ pendingMusic' = a.pending
  /\ currentMusic' = a.current
  /\ currentMusicInstance' = a.instance
  /\ registeredSounds' = a.registered
  /\ failedSounds' = a.failed
  /\ musicEnabled' = a.musicOn
  /\ sfxEnabled' = a.sfxOn
  /\ audioContext' = a.ctx
  /\ resumes' = a.resumes
  /\ playing' = a.playing
  /\ soundPlays' = a.plays
  /\ musicVolume' = a.volume

\* stopMusic: the tracked instance, the current track and every registered
\* bgm_ track are stopped; pendingMusic is left as it is
StopMusic(a) ==
  [a EXCEPT !.instance = FALSE, !.playing = @ \ MusicTracks, !.current = NoTrack]

\* isAudioUnlocked
IsAudioUnlocked(a) == a.unlocked \/ a.ctx = "running"

\* registerSound: whether the sound is (or becomes) registered
CanRegister(a, name) == name \in a.registered \/ name \notin a.failed

RegisterSound(a, name) ==
  IF CanRegister(a, name) THEN [a EXCEPT !.registered = @ \cup {name}] ELSE a

\* sound.play(name, ...): the library starts an instance of the track
SoundPlay(a, name) ==
  [a EXCEPT !.playing = @ \cup {name}, !.plays = @ \cup {name}]

RECURSIVE PlayMusic(_, _)
RECURSIVE Unlock(_)
RECURSIVE PlayPendingMusic(_)

\* playPendingMusic
PlayPendingMusic(a) ==
  IF a.pending # NoTrack
    THEN PlayMusic([a EXCEPT !.pending = NoTrack], a.pending)
    ELSE a

\* unlock: with a suspended context the unlocking is left to the then() of
\* audioContext.resume()
Unlock(a) ==
  IF a.unlocked THEN PlayPendingMusic(a)
  ELSE IF a.ctx = "suspended" THEN [a EXCEPT !.resumes = @ + 1]
  ELSE PlayPendingMusic([a EXCEPT !.unlocked = TRUE])

\* playMusic
PlayMusic(a, trackName) ==
  IF ~a.musicOn THEN StopMusic(a)
  ELSE IF trackName \notin Registry THEN a
  ELSE IF a.current = trackName /\ a.instance /\ a.playing # {} THEN a
  ELSE LET a1 == StopMusic(a) IN
    IF ~IsAudioUnlocked(a1) THEN [a1 EXCEPT !.pending = trackName]
    ELSE LET a2 == Unlock(a1) IN
      IF ~CanRegister(a2, trackName) THEN [a2 EXCEPT !.current = trackName]
      ELSE [SoundPlay(RegisterSound(a2, trackName), trackName)
              EXCEPT !.instance = TRUE, !.current = trackName]

\* playSfx: an effect is passed to the library at once; an effect leaves no
\* instance behind
PlaySfx(a, name) ==
  IF ~a.sfxOn THEN a
  ELSE LET a1 == Unlock(a) IN
    IF ~CanRegister(a1, name) THEN a1
    ELSE [SoundPlay(RegisterSound(a1, name), name) EXCEPT !.playing = a1.playing]

\* setMusicEnabled
SetMusicEnabled(a, enabled) ==
  IF enabled THEN [a EXCEPT !.musicOn = TRUE]
  ELSE StopMusic([a EXCEPT !.musicOn = FALSE])

\* Math.max(0, Math.min(1, volume)), in tenths
Clamp(volume) ==
  IF volume < 0 THEN 0 ELSE IF volume > FullVolume THEN FullVolume ELSE volume

\* setMusicVolume: with music playing the music is stopped and playMusic is
\* called with this.currentMusic as stopMusic has left it
SetMusicVolume(a, volume) ==
  LET a1 == [a EXCEPT !.volume = Clamp(volume)]
  IN IF a1.current # NoTrack /\ a1.current \in a1.registered /\ a1.playing # {}
       THEN PlayMusic(StopMusic(a1), StopMusic(a1).current)
       ELSE a1

\* a call the claim is about: made while isUnlocked is false and not switched off
Early(kindOn, name) ==
  IF ~isUnlocked /\ kindOn THEN Append(earlyCalls, name) ELSE earlyCalls

AudioWithinBounds(a) == a.resumes <= MaxResumes

\* a scene calls playMusic
PlayMusicCalled ==
  \E trackName \in MusicTracks :
    /\ Len(Early(musicEnabled, trackName)) <= MaxEarly
    /\ AudioWithinBounds(PlayMusic(Aud, trackName))
    /\ SetAud(PlayMusic(Aud, trackName))
    /\ earlyCalls' = Early(musicEnabled, trackName)
    /\ musicStopped' = FALSE

\* a scene calls playSfx
PlaySfxCalled ==
  \E name \in SfxTracks :
    /\ Len(Early(sfxEnabled, name)) <= MaxEarly
    /\ AudioWithinBounds(PlaySfx(Aud, name))
    /\ SetAud(PlaySfx(Aud, name))
    /\ earlyCalls' = Early(sfxEnabled, name)
    /\ UNCHANGED musicStopped

\* a scene calls stopMusic
StopMusicCalled ==
  /\ SetAud(StopMusic(Aud))
  /\ musicStopped' = TRUE
  /\ UNCHANGED earlyCalls

\* the first-gesture listener of the Game (or a scene) calls unlock
UnlockCalled ==
  /\ AudioWithinBounds(Unlock(Aud))
  /\ SetAud(Unlock(Aud))
  /\ UNCHANGED <<earlyCalls, musicStopped>>

\* audioContext.resume() resolves: the context runs and the then() of unlock
\* sets isUnlocked and plays the pending music
ResumeResolves ==
  /\ resumes > 0
  /\ SetAud(PlayPendingMusic([Aud EXCEPT !.resumes = @ - 1, !.ctx = "running",
                                         !.unlocked = TRUE]))
  /\ UNCHANGED <<earlyCalls, musicStopped>>

\* audioContext.resume() rejects: the catch of unlock logs a warning
ResumeRejects ==
  /\ resumes > 0
  /\ audioContext = "suspended"
  /\ SetAud([Aud EXCEPT !.resumes = @ - 1])
  /\ UNCHANGED <<earlyCalls, musicStopped>>

\* the browser lets the context run without a resume() of the manager
ContextStarts ==
  /\ audioContext = "suspended"
  /\ SetAud([Aud EXCEPT !.ctx = "running"])
  /\ UNCHANGED <<earlyCalls, musicStopped>>

\* fetchSoundData fails for a sound that is not registered yet
FetchFails ==
  \E name \in Registry \ (registeredSounds \cup failedSounds) :
    /\ SetAud([Aud EXCEPT !.failed = @ \cup {name}])
    /\ UNCHANGED <<earlyCalls, musicStopped>>

\* the settings call setMusicEnabled; music that is switched off is no
\* longer owed
SetMusicEnabledCalled ==
  \E enabled \in BOOLEAN :
    /\ enabled # musicEnabled
    /\ SetAud(SetMusicEnabled(Aud, enabled))
    /\ earlyCalls' = IF enabled THEN earlyCalls
                     ELSE SelectSeq(earlyCalls, LAMBDA n : n \notin MusicTracks)
    /\ UNCHANGED musicStopped

\* the settings call setSfxEnabled
SetSfxEnabledCalled ==
  \E enabled \in BOOLEAN :
    /\ enabled # sfxEnabled
    /\ SetAud([Aud EXCEPT !.sfxOn = enabled])
    /\ earlyCalls' = IF enabled THEN earlyCalls
                     ELSE SelectSeq(earlyCalls, LAMBDA n : n \notin SfxTracks)
    /\ UNCHANGED musicStopped

\* the settings call setMusicVolume
SetMusicVolumeCalled ==
  \E volume \in VolumeInputs :
    /\ SetAud(SetMusicVolume(Aud, volume))
    /\ UNCHANGED <<earlyCalls, musicStopped>>

\* a new AudioManager with DEFAULT_AUDIO_SETTINGS, in a browser that suspends
\* the audio context until a gesture
AudioInit ==
  /\ isUnlocked = FALSE
  /\ pendingMusic = NoTrack
  /\ currentMusic = NoTrack
  /\ currentMusicInstance = FALSE
  /\ registeredSounds = {}
  /\ failedSounds = {}
  /\ musicEnabled = TRUE
  /\ sfxEnabled = TRUE
  /\ audioContext = "suspended"
  /\ resumes = 0
  /\ playing = {}
  /\ earlyCalls = <<>>
  /\ soundPlays = {}
  /\ musicVolume = DefaultMusicVolume
  /\ musicStopped = FALSE

(***************************************************************************)
(* Audio claims                                                            *)
(***************************************************************************)
\* C21: every playMusic or playSfx call made before the audio system is
\* unlocked is retained and is played when unlock() succeeds: once the audio
\* is unlocked, every such call for a sound that can be registered has been
\* passed to the library.
C21_EarlyCallsPlayed ==
  isUnlocked =>
    \A i \in 1..Len(earlyCalls) :
      earlyCalls[i] \notin failedSounds => earlyCalls[i] \in soundPlays

\* C32: at most one background-music track is playing at any time, for every
\* interleaving of playMusic, stopMusic, unlock, the completion of resume()
\* and the playing of the pending track.
C32_OneMusicTrack ==
  Cardinality(playing \cap MusicTracks) <= 1

\* C35: after stopMusic() no music track starts playing until playMusic is
\* called again; a track held as pending does not start when unlock() later
\* succeeds.
C35_StoppedStaysSilent ==
  musicStopped => playing \cap MusicTracks = {}

\* C36: setMusicVolume(v) called while a music track is playing leaves that
\* same track playing, with the music volume set to v clamped to [0, 1]; it
\* does not leave the game with no current music.
C36_VolumeKeepsTrack ==
  [][\A volume \in VolumeInputs :
       (/\ currentMusic \in MusicTracks \cap playing
        /\ currentMusicInstance
        /\ SetAud(SetMusicVolume(Aud, volume))
        /\ UNCHANGED <<earlyCalls, musicStopped>>)
         => /\ currentMusic' = currentMusic
            /\ currentMusic \in playing'
            /\ musicVolume' = Clamp(volume)]_vars

(***************************************************************************)
(* Game: saveProgress and loadProgress                                     *)
(***************************************************************************)
\* volumes are counted in tenths: 7 is 0.7
FallbackMusicVolume == 7
FallbackSfxVolume == 8

ScoreKeys == {"highScore", "lastScore"}
FlagKeys == {"musicEnabled", "sfxEnabled"}
VolumeKeys == {"musicVolume", "sfxVolume"}

\* the progress of a new Game and DEFAULT_AUDIO_SETTINGS
DefaultMemory ==
  [key \in ToSet(SavedKeys) |->
     CASE key \in ScoreKeys -> 0
       [] key \in FlagKeys -> TRUE
       [] key = "musicVolume" -> 7
       [] key = "sfxVolume" -> 8]

\* the values the game holds in memory
MemoryValues(key) ==
  CASE key = "highScore" -> {0, 120}
    [] key = "lastScore" -> {0, 35}
    [] key \in FlagKeys -> BOOLEAN
    [] key = "musicVolume" -> {0, 7, 10}
    [] key = "sfxVolume" -> {0, 8}

Memories ==
  {[key \in ToSet(SavedKeys) |->
      CASE key = "highScore" -> hs
        [] key = "lastScore" -> ls
        [] key = "musicEnabled" -> me
        [] key = "sfxEnabled" -> se
        [] key = "musicVolume" -> mv
        [] key = "sfxVolume" -> sv] :
     hs \in MemoryValues("highScore"), ls \in MemoryValues("lastScore"),
     me \in MemoryValues("musicEnabled"), se \in MemoryValues("sfxEnabled"),
     mv \in MemoryValues("musicVolume"), sv \in MemoryValues("sfxVolume")}

\* Boolean.prototype.toString
BoolToString(x) ==
  IF x THEN <<"t", "r", "u", "e">> ELSE <<"f", "a", "l", "s", "e">>

\* Number.prototype.toString of a volume of 0.0 to 1.0
VolumeToString(tenths) ==
  IF tenths % 10 = 0 THEN NumberToString(tenths \div 10)
  ELSE NumberToString(tenths \div 10) \o <<".">> \o NumberToString(tenths % 10)

RECURSIVE LeadingDigits(_)
\* the number of digits a string starts with
LeadingDigits(s) ==
  IF s = <<>> \/ ~IsDigit(Head(s)) THEN 0 ELSE 1 + LeadingDigits(Tail(s))

\* parseFloat of a string with at most one decimal, in tenths (0 stands for
\* NaN as well: both are falsy)
ParseFloatTenths(s) ==
  LET n == LeadingDigits(s)
      rest == SubSeq(s, n + 1, Len(s))
  IN 10 * ParseDigits(SubSeq(s, 1, n), 0)
       + (IF Len(rest) >= 2 /\ rest[1] = "." /\ IsDigit(rest[2])
            THEN DigitValue(rest[2]) ELSE 0)

\* the string saveProgress passes to setData for a key
Encode(key, value) ==
  CASE key \in ScoreKeys -> NumberToString(value)
    [] key \in FlagKeys -> BoolToString(value)
    [] key \in VolumeKeys -> VolumeToString(value)

\* what loadProgress assigns for a key from the string getData returned
Decode(key, data, previous) ==
  CASE key \in ScoreKeys ->
         IF data \notin {Null, <<>>} THEN ParseIntOrZero(data) ELSE previous
    [] key \in FlagKeys ->
         IF data # Null THEN data = BoolToString(TRUE) ELSE previous
    [] key = "musicVolume" ->
         IF data # Null
           THEN (IF ParseFloatTenths(data) # 0 THEN ParseFloatTenths(data)
                 ELSE FallbackMusicVolume)
           ELSE previous
    [] key = "sfxVolume" ->
         IF data # Null
           THEN (IF ParseFloatTenths(data) # 0 THEN ParseFloatTenths(data)
                 ELSE FallbackSfxVolume)
           ELSE previous

\* the position of a key in the order of the setData / getData calls
KeyIndex(key) == CHOOSE k \in 1..Len(SavedKeys) : SavedKeys[k] = key

\* the calls before call number failAt are answered; failAt = 0: none rejects
Answered(key, failAt) == failAt = 0 \/ KeyIndex(key) < failAt

\* saveProgress: the store after the setData calls that were answered
SaveAll(data, memory, failAt) ==
  [key \in DOMAIN data |->
     IF Answered(key, failAt) THEN Encode(key, memory[key]) ELSE data[key]]

\* loadProgress: the memory after the getData calls that were answered
LoadAll(data, memory, failAt) ==
  [key \in DOMAIN memory |->
     IF Answered(key, failAt) THEN Decode(key, data[key], memory[key])
     ELSE memory[key]]

PromiseUncaught(failAt) == IF failAt = 0 THEN "resolved" ELSE "rejected"

\* the promise of saveProgress / loadProgress: the try block holds every
\* await and the catch only logs
PromiseOf(failAt) == "resolved"

\* the game changes a score or a setting
MemoryChanges ==
  \E key \in ToSet(SavedKeys) : \E value \in MemoryValues(key) :
    /\ value # gameMemory[key]
    /\ gameMemory' = [gameMemory EXCEPT ![key] = value]
    /\ lastCall' = [op |-> "none", failAt |-> 0, promise |-> "none"]
    /\ UNCHANGED platformData

\* the calls whose rejection is followed: none, the first, one in the middle,
\* and updateScore after the last setData
FailPoints == {0, 1, Len(SavedKeys) \div 2 + 1, Len(SavedKeys) + 1}

SaveProgressStep(failAt) ==
  /\ platformData' = SaveAll(platformData, gameMemory, failAt)
  /\ lastCall' = [op |-> "save", failAt |-> failAt, promise |-> PromiseOf(failAt)]
  /\ UNCHANGED gameMemory

\* saveProgress; call number failAt rejects (Len(SavedKeys) + 1 is updateScore)
SaveProgressCalled ==
  \E failAt \in FailPoints : SaveProgressStep(failAt)

LoadProgressStep(failAt) ==
  /\ gameMemory' = LoadAll(platformData, gameMemory, failAt)
  /\ lastCall' = [op |-> "load", failAt |-> failAt, promise |-> PromiseOf(failAt)]
  /\ UNCHANGED platformData

\* loadProgress; getData call number failAt rejects
LoadProgressCalled ==
  \E failAt \in FailPoints \cap 0..Len(SavedKeys) : LoadProgressStep(failAt)

\* the page is loaded again: a new Game with the defaults, the store is kept
PageReloaded ==
  /\ gameMemory # DefaultMemory
  /\ gameMemory' = DefaultMemory
  /\ lastCall' = [op |-> "none", failAt |-> 0, promise |-> "none"]
  /\ UNCHANGED platformData

PersistInit ==
  /\ gameMemory = DefaultMemory
  /\ platformData = [key \in ToSet(SavedKeys) |-> Null]
  /\ lastCall = [op |-> "none", failAt |-> 0, promise |-> "none"]

(***************************************************************************)
(* Persistence claims                                                      *)
(***************************************************************************)
\* C22: for every in-memory value of highScore, lastScore, musicEnabled,
\* sfxEnabled, musicVolume and sfxVolume (volumes anywhere in [0,1], 0
\* included), saveProgress followed by loadProgress against a faithful
\* key-value store restores exactly the same values.
C22_RoundTrip ==
  (lastCall.op = "load" /\ lastCall.failAt = 0) =>
    \A memory \in Memories :
      platformData = SaveAll(platformData, memory, 0) => gameMemory = memory

DESIGN_W == 1920
DESIGN_H == 1080
\* fraction bits of a double
FractionBits == 52
\* the small viewports the model goes through, besides the named ones
MaxSide == 6

Viewports ==
  ((1..MaxSide) \X (1..MaxSide))
    \cup {<<800, 600>>, <<600, 800>>, <<1920, 1080>>, <<31, 22>>}

NoScreen == <<0, 0>>

RECURSIVE Gcd(_, _)
Gcd(a, b) == IF b = 0 THEN a ELSE Gcd(b, a % b)

\* the rational n / d (d > 0) in lowest terms
Rat(n, d) ==
  LET g == Gcd(IF n < 0 THEN -n ELSE n, d)
  IN [n |-> n \div g, d |-> d \div g]

RatLeq(a, b) == a.n * b.d <= b.n * a.d

Sign(i) == IF i > 0 THEN 1 ELSE IF i < 0 THEN -1 ELSE 0

RECURSIVE Pow2(_)
Pow2(k) == IF k = 0 THEN 1 ELSE 2 * Pow2(k - 1)

RECURSIVE Pow2Mod(_, _)
\* 2^k modulo m
Pow2Mod(k, m) == IF k = 0 THEN 1 % m ELSE (2 * Pow2Mod(k - 1, m)) % m

RECURSIVE ExponentUp(_, _, _)
ExponentUp(v, d, e) == IF d * Pow2(e + 1) <= v THEN ExponentUp(v, d, e + 1) ELSE e

RECURSIVE ExponentDown(_, _, _)
ExponentDown(v, d, k) == IF v * Pow2(k) < d THEN ExponentDown(v, d, k + 1) ELSE -k

\* the binary exponent of v / d: 2^e <= v / d < 2^(e + 1)
Exponent(v, d) == IF v >= d THEN ExponentUp(v, d, 0) ELSE ExponentDown(v, d, 0)

\* the rounding error of the double v / d, in d-ths of its unit in the last
\* place: what round-to-nearest adds to the quotient cut off after the last
\* fraction bit (no quotient of the model lies half-way)
RoundErr(v, d) ==
  LET rem == (v * Pow2Mod(FractionBits - Exponent(v, d), d)) % d
  IN IF 2 * rem > d THEN d - rem ELSE -rem

\* the sign of d * (v / d) - v as the doubles give it: the product of d and
\* the rounded quotient, rounded to the nearest double (a tie goes to v,
\* whose last fraction bit is 0; below a power of two the doubles lie twice
\* as close)
ProductDev(v, d) ==
  LET a == RoundErr(v, d)
      shift == Exponent(v, 1) - Exponent(v, d)
      below == IF v = Pow2(Exponent(v, 1)) THEN 2 ELSE 1
  IN IF a > 0 THEN (IF 2 * a > Pow2(shift) THEN 1 ELSE 0)
     ELSE IF a < 0 THEN (IF 2 * below * (-a) > Pow2(shift) THEN -1 ELSE 0)
     ELSE 0

\* the double v / d: its exact value and the sign of its rounding error
Quotient(v, d) ==
  [n |-> Rat(v, d).n, d |-> Rat(v, d).d, dev |-> Sign(RoundErr(v, d))]

ComputeLayoutUncentred(screen) ==
  LET screenWidth == screen[1]
      screenHeight == screen[2]
      scaleX == Quotient(screenWidth, DESIGN_W)
      scaleY == Quotient(screenHeight, DESIGN_H)
      scaleFit == IF RatLeq(scaleX, scaleY) THEN scaleX ELSE scaleY
      fitWidth == Rat(DESIGN_W * scaleFit.n, scaleFit.d)
      fitHeight == Rat(DESIGN_H * scaleFit.n, scaleFit.d)
      vw == Rat(screenWidth * scaleFit.d, scaleFit.n)
      vh == Rat(screenHeight * scaleFit.d, scaleFit.n)
  IN [scaleFit |-> scaleFit,
      offsetX |-> [n |-> Rat(screenWidth * fitWidth.d - fitWidth.n, fitWidth.d).n,
                   d |-> Rat(screenWidth * fitWidth.d - fitWidth.n, fitWidth.d).d,
                   dev |-> 0],
      offsetY |-> [n |-> Rat(screenHeight * fitHeight.d - fitHeight.n, fitHeight.d).n,
                   d |-> Rat(screenHeight * fitHeight.d - fitHeight.n, fitHeight.d).d,
                   dev |-> 0],
      vx |-> Rat(DESIGN_W * vw.d - vw.n, 2 * vw.d),
      vy |-> Rat(DESIGN_H * vh.d - vh.n, 2 * vh.d),
      vw |-> vw,
      vh |-> vh,
      screenWidth |-> screenWidth,
      screenHeight |-> screenHeight,
      scaleFill |-> IF RatLeq(scaleX, scaleY) THEN scaleY ELSE scaleX]

ComputeLayoutFitIsFill(screen) ==
  LET screenWidth == screen[1]
      screenHeight == screen[2]
      scaleX == Quotient(screenWidth, DESIGN_W)
      scaleY == Quotient(screenHeight, DESIGN_H)
      scaleFit == IF RatLeq(scaleX, scaleY) THEN scaleY ELSE scaleX
      fitWidth == Rat(DESIGN_W * scaleFit.n, scaleFit.d)
      fitHeight == Rat(DESIGN_H * scaleFit.n, scaleFit.d)
      vw == Rat(screenWidth * scaleFit.d, scaleFit.n)
      vh == Rat(screenHeight * scaleFit.d, scaleFit.n)
  IN [scaleFit |-> scaleFit,
      offsetX |-> [n |-> Rat(screenWidth * fitWidth.d - fitWidth.n, 2 * fitWidth.d).n,
                   d |-> Rat(screenWidth * fitWidth.d - fitWidth.n, 2 * fitWidth.d).d,
                   dev |-> 0],
      offsetY |-> [n |-> Rat(screenHeight * fitHeight.d - fitHeight.n, 2 * fitHeight.d).n,
                   d |-> Rat(screenHeight * fitHeight.d - fitHeight.n, 2 * fitHeight.d).d,
                   dev |-> 0],
      vx |-> Rat(DESIGN_W * vw.d - vw.n, 2 * vw.d),
      vy |-> Rat(DESIGN_H * vh.d - vh.n, 2 * vh.d),
      vw |-> vw,
      vh |-> vh,
      screenWidth |-> screenWidth,
      screenHeight |-> screenHeight,
      scaleFill |-> scaleFit]

\* computeLayout for app.screen = screen. fitWidth and fitHeight are
\* DESIGN_W * scaleFit and DESIGN_H * scaleFit; the one that ties with the
\* screen size carries the rounding of the product, and the offset, a
\* difference of neighbouring doubles halved, is exact from there
ComputeLayout(screen) ==
  LET screenWidth == screen[1]
      screenHeight == screen[2]
      scaleX == Quotient(screenWidth, DESIGN_W)
      scaleY == Quotient(screenHeight, DESIGN_H)
      scaleFit == IF RatLeq(scaleX, scaleY) THEN scaleX ELSE scaleY
      fitWidth == Rat(DESIGN_W * scaleFit.n, scaleFit.d)
      fitHeight == Rat(DESIGN_H * scaleFit.n, scaleFit.d)
      fitWidthDev == IF RatLeq(scaleX, scaleY)
                       THEN ProductDev(screenWidth, DESIGN_W) ELSE 0
      fitHeightDev == IF RatLeq(scaleY, scaleX)
                        THEN ProductDev(screenHeight, DESIGN_H) ELSE 0
      vw == Rat(screenWidth * scaleFit.d, scaleFit.n)
      vh == Rat(screenHeight * scaleFit.d, scaleFit.n)
  IN [scaleFit |-> scaleFit,
      offsetX |-> [n |-> Rat(screenWidth * fitWidth.d - fitWidth.n, 2 * fitWidth.d).n,
                   d |-> Rat(screenWidth * fitWidth.d - fitWidth.n, 2 * fitWidth.d).d,
                   dev |-> -fitWidthDev],
      offsetY |-> [n |-> Rat(screenHeight * fitHeight.d - fitHeight.n, 2 * fitHeight.d).n,
                   d |-> Rat(screenHeight * fitHeight.d - fitHeight.n, 2 * fitHeight.d).d,
                   dev |-> -fitHeightDev],
      vx |-> Rat(DESIGN_W * vw.d - vw.n, 2 * vw.d),
      vy |-> Rat(DESIGN_H * vh.d - vh.n, 2 * vh.d),
      vw |-> vw,
      vh |-> vh,
      screenWidth |-> screenWidth,
      screenHeight |-> screenHeight,
      scaleFill |-> IF RatLeq(scaleX, scaleY) THEN scaleY ELSE scaleX]

\* what getLayoutState() returns
GetLayoutState ==
  IF layoutState = <<>> THEN ComputeLayout(appScreen) ELSE layoutState[1]

\* the player resizes the window or turns the device
ViewportResized ==
  \E v \in Viewports :
    /\ v # viewport
    /\ viewport' = v
    /\ UNCHANGED <<appScreen, layoutState, sceneLayers>>

\* Game.init: app.init({ width: window.innerWidth, height: window.innerHeight })
LayoutAppInit ==
  /\ appScreen = NoScreen
  /\ appScreen' = viewport
  /\ UNCHANGED <<viewport, layoutState, sceneLayers>>

\* computeLayout()
ComputeLayoutCalled ==
  /\ appScreen # NoScreen
  /\ layoutState' = <<ComputeLayout(appScreen)>>
  /\ UNCHANGED <<viewport, appScreen, sceneLayers>>

\* getLayoutState(): computes the layout only while none is cached
GetLayoutStateCalled ==
  /\ appScreen # NoScreen
  /\ layoutState' = <<GetLayoutState>>
  /\ UNCHANGED <<viewport, appScreen, sceneLayers>>

\* createSceneLayers()
CreateSceneLayersCalled ==
  /\ appScreen # NoScreen
  /\ layoutState' = <<ComputeLayout(appScreen)>>
  /\ sceneLayers' = TRUE
  /\ UNCHANGED <<viewport, appScreen>>

\* relayout(): returns at once without scene layers
RelayoutCalled ==
  /\ appScreen # NoScreen
  /\ sceneLayers
  /\ layoutState' = <<ComputeLayout(appScreen)>>
  /\ UNCHANGED <<viewport, appScreen, sceneLayers>>

LayoutInit ==
  /\ viewport = <<800, 600>>
  /\ appScreen = NoScreen
  /\ layoutState = <<>>
  /\ sceneLayers = FALSE

(***************************************************************************)
(* Layout claims                                                           *)
(***************************************************************************)
\* C24: at every point after initialization the LayoutState getLayoutState()
\* returns equals what computeLayout would produce for the current physical
\* viewport size, also after the viewport was resized or the orientation
\* changed.
C24_LayoutFollowsViewport ==
  appScreen # NoScreen => GetLayoutState = ComputeLayout(viewport)

\* C25: for every positive viewport (w, h) computeLayout yields
\* scaleFit = min(w/1920, h/1080), offsetX = (w - 1920*scaleFit)/2,
\* offsetY = (h - 1080*scaleFit)/2 and scaleFill = max(w/1920, h/1080) in
\* exact arithmetic; for viewport (800, 600) these are 5/12, 0 and 75, and
\* the doubles are those very numbers.
C25_LayoutFormulas ==
  layoutState # <<>> =>
    LET L == layoutState[1]
        w == L.screenWidth
        h == L.screenHeight
    IN /\ L.scaleFit.n * DESIGN_W <= w * L.scaleFit.d
       /\ L.scaleFit.n * DESIGN_H <= h * L.scaleFit.d
       /\ \/ L.scaleFit.n * DESIGN_W = w * L.scaleFit.d
          \/ L.scaleFit.n * DESIGN_H = h * L.scaleFit.d
       /\ L.scaleFill.n * DESIGN_W >= w * L.scaleFill.d
       /\ L.scaleFill.n * DESIGN_H >= h * L.scaleFill.d
       /\ \/ L.scaleFill.n * DESIGN_W = w * L.scaleFill.d
          \/ L.scaleFill.n * DESIGN_H = h * L.scaleFill.d
       /\ 2 * L.offsetX.n * L.scaleFit.d
            = L.offsetX.d * (w * L.scaleFit.d - DESIGN_W * L.scaleFit.n)
       /\ 2 * L.offsetY.n * L.scaleFit.d
            = L.offsetY.d * (h * L.scaleFit.d - DESIGN_H * L.scaleFit.n)
       /\ (w = 800 /\ h = 600) =>
            /\ L.scaleFit.n = 5 /\ L.scaleFit.d = 12
            /\ L.offsetX = [n |-> 0, d |-> 1, dev |-> 0]
            /\ L.offsetY = [n |-> 75, d |-> 1, dev |-> 0]

C25_Witness ==
  /\ layoutState # <<>>
  /\ layoutState[1].screenWidth = 800
  /\ layoutState[1].screenHeight = 600
  /\ layoutState[1].offsetY.n = 75
  /\ layoutState[1].scaleFill.n * 9 = 5 * layoutState[1].scaleFill.d

\* the double design * scale, measured against the screen side it equals
\* in exact arithmetic when scale is that side's quotient
Product(design, scale, side) ==
  [n |-> Rat(design * scale.n, scale.d).n,
   d |-> Rat(design * scale.n, scale.d).d,
   dev |-> IF design * scale.n = side * scale.d
             THEN ProductDev(side, design) ELSE 0]

\* the double x is at most (at least) the integer k
AtMost(x, k) == x.n < k * x.d \/ (x.n = k * x.d /\ x.dev <= 0)
AtLeast(x, k) == x.n > k * x.d \/ (x.n = k * x.d /\ x.dev >= 0)

\* C26 as stated: for every positive viewport size the numbers the code
\* computes satisfy 1920*scaleFit <= w, 1080*scaleFit <= h, offsetX >= 0,
\* offsetY >= 0, 1920*scaleFill >= w and 1080*scaleFill >= h.
C26_FitInsideFillCovers ==
  layoutState # <<>> =>
    LET L == layoutState[1]
        w == L.screenWidth
        h == L.screenHeight
    IN /\ AtMost(Product(DESIGN_W, L.scaleFit, w), w)
       /\ AtMost(Product(DESIGN_H, L.scaleFit, h), h)
       /\ AtLeast(L.offsetX, 0)
       /\ AtLeast(L.offsetY, 0)
       /\ AtLeast(Product(DESIGN_W, L.scaleFill, w), w)
       /\ AtLeast(Product(DESIGN_H, L.scaleFill, h), h)

\* C26, amended: the six inequalities hold for the exact values of the
\* quotients, products and differences; a double the code computes falls on
\* the wrong side of its bound only where the exact value equals the bound.
C26_FitInsideFillCoversExact ==
  layoutState # <<>> =>
    LET L == layoutState[1]
        w == L.screenWidth
        h == L.screenHeight
    IN /\ DESIGN_W * L.scaleFit.n <= w * L.scaleFit.d
       /\ DESIGN_H * L.scaleFit.n <= h * L.scaleFit.d
       /\ L.offsetX.n >= 0 /\ L.offsetX.d > 0
       /\ L.offsetY.n >= 0 /\ L.offsetY.d > 0
       /\ DESIGN_W * L.scaleFill.n >= w * L.scaleFill.d
       /\ DESIGN_H * L.scaleFill.n >= h * L.scaleFill.d
       /\ L.offsetX.dev < 0 => L.offsetX.n = 0
       /\ L.offsetY.dev < 0 => L.offsetY.n = 0

C26_Witness ==
  /\ layoutState # <<>>
  /\ layoutState[1].screenWidth = 31
  /\ layoutState[1].screenHeight = 22
  /\ layoutState[1].offsetX.dev < 0
  /\ layoutState[1].offsetY.n > 0

(***************************************************************************)
(* MenuScene: the play button, the level-start dialog and the level load   *)
(* Scales are kept as integers: button scales in tenths, the scale of the  *)
(* dialog's button in hundredths.                                          *)
(***************************************************************************)
\* the buttons of createMenuUI that are modelled: uiPlayBg and uiSetting
MenuButtons == {"play", "setting"}
\* values of context.progress.currentLevel the menu is created with (0 = absent)
ProgressLevels == {0, 2, 3}

\* whether the pointer reaches a menu button: not while the overlay of a
\* dialog covers the ui layer, and not a button whose eventMode is 'none'
Reaches(button) ==
  /\ menuStage = "created"
  /\ startDialog = "none"
  /\ button = "play" => buttonMode = "static"

\* create() -> createMenuUI: currentLevel = progress.currentLevel || 1 and
\* makeInteractive on each button
MenuCreate ==
  /\ menuStage = "constructed"
  /\ \E p \in ProgressLevels :
       menuLevel' = IF p = 0 THEN 1 ELSE p
  /\ menuStage' = "created"
  /\ buttonMode' = "static"
  /\ UNCHANGED <<buttonScale, startDialog, dialogButtonScale, levelLoad,
                 gameplayRequested>>

\* makeInteractive: pointerover, pointerout and pointerdown set the scale
MenuPointerMoves ==
  \E button \in MenuButtons, event \in {"pointerover", "pointerout", "pointerdown"} :
    /\ Reaches(button)
    /\ buttonScale' = [buttonScale EXCEPT ![button] =
                         CASE event = "pointerover" -> 11
                           [] event = "pointerout" -> 10
                           [] event = "pointerdown" -> 9]
    /\ UNCHANGED <<menuStage, menuLevel, buttonMode, startDialog,
                   dialogButtonScale, levelLoad, gameplayRequested>>

\* pointerup on uiSetting: the scale and a console.log
SettingPointerUp ==
  /\ Reaches("setting")
  /\ buttonScale' = [buttonScale EXCEPT !["setting"] = 11]
  /\ UNCHANGED <<menuStage, menuLevel, buttonMode, startDialog,
                 dialogButtonScale, levelLoad, gameplayRequested>>

\* uiPlayBg.eventMode = "none" in the onClick of the play button
PlayOnClick == "none"

\* pointerup on uiPlayBg: the button is switched off and showLevelStart
\* opens the dialog (createBaseDialog)
PlayPointerUp ==
  /\ Reaches("play")
  /\ buttonScale' = [buttonScale EXCEPT !["play"] = 11]
  /\ buttonMode' = PlayOnClick
  /\ startDialog' = "open"
  /\ dialogButtonScale' = 100
  /\ UNCHANGED <<menuStage, menuLevel, levelLoad, gameplayRequested>>

\* pointerover, pointerout and pointerdown on the Play button of the dialog
DialogButtonMoves ==
  \E event \in {"pointerover", "pointerout", "pointerdown"} :
    /\ startDialog = "open"
    /\ dialogButtonScale' = CASE event = "pointerover" -> 105
                               [] event = "pointerout" -> 100
                               [] event = "pointerdown" -> 95
    /\ UNCHANGED <<menuStage, menuLevel, buttonMode, buttonScale, startDialog,
                   levelLoad, gameplayRequested>>

\* pointerup on the Play button of the dialog: closeDialog with onBtnClick
DialogButtonUp ==
  /\ startDialog = "open"
  /\ dialogButtonScale' = 105
  /\ startDialog' = "closingPlay"
  /\ UNCHANGED <<menuStage, menuLevel, buttonMode, buttonScale, levelLoad,
                 gameplayRequested>>

\* pointerdown on the overlay: closeDialog without a callback
OverlayPointerDown ==
  /\ startDialog = "open"
  /\ startDialog' = "closingOut"
  /\ UNCHANGED <<menuStage, menuLevel, buttonMode, buttonScale,
                 dialogButtonScale, levelLoad, gameplayRequested>>

\* onComplete of the overlay's fade: the dialog is destroyed and, when the
\* Play button closed it, onPlay calls loadAndPlayLevel, which runs up to the
\* await of Assets.load
DialogFadeComplete ==
  /\ startDialog \in {"closingPlay", "closingOut"}
  /\ startDialog' = "none"
  /\ levelLoad' = IF startDialog = "closingPlay" THEN "loading" ELSE levelLoad
  /\ UNCHANGED <<menuStage, menuLevel, buttonMode, buttonScale,
                 dialogButtonScale, gameplayRequested>>

\* Assets.load resolves: changeScene(new GameplayScene(context, levelData))
LevelLoadResolves ==
  /\ levelLoad = "loading"
  /\ levelLoad' = "loaded"
  /\ gameplayRequested' = TRUE
  /\ UNCHANGED <<menuStage, menuLevel, buttonMode, buttonScale, startDialog,
                 dialogButtonScale>>

\* Assets.load rejects (no file for the level): the catch logs the error
LevelLoadRejects ==
  /\ levelLoad = "loading"
  /\ levelLoad' = "failed"
  /\ UNCHANGED <<menuStage, menuLevel, buttonMode, buttonScale, startDialog,
                 dialogButtonScale, gameplayRequested>>

\* a MenuScene as constructed
MenuInit ==
  /\ menuStage = "constructed"
  /\ menuLevel = 0
  /\ buttonMode = "auto"
  /\ buttonScale = [button \in MenuButtons |-> 10]
  /\ startDialog = "none"
  /\ dialogButtonScale = 100
  /\ levelLoad = "none"
  /\ gameplayRequested = FALSE

(***************************************************************************)
(* Menu claims                                                             *)
(***************************************************************************)
\* C34: after the play button was pressed either the transition to the
\* GameplayScene is requested or the play button becomes pressable again:
\* with the dialog gone, no level load in flight and no transition
\* requested, the play button takes input.
C34_PlayButtonRecovers ==
  (/\ menuStage = "created"
   /\ startDialog = "none"
   /\ levelLoad # "loading"
   /\ ~gameplayRequested)
    => buttonMode = "static"

(***************************************************************************)
(* The server: POST /highscore for one post and one user                   *)
(***************************************************************************)
\* POST /highscore requests the client sends
MaxRequests == 3
Requests == 1..MaxRequests
\* the score of a request body; a negative score is answered with 400
Scores == {-5, 40, 90}

NoRequest == [pc |-> "none", score |-> 0, status |-> 0]

\* current ? parseInt(current) : 0
CurrentScore(current) == IF current = Null THEN 0 ELSE ParseIntOrZero(current)

\* if (score > currentScore)
IsNewRecord(score, currentScore) == score > currentScore

\* the handler up to "await redis.get(key)": the body is read and checked
PostReceived ==
  \E r \in Requests, score \in Scores :
    /\ requests[r].pc = "none"
    /\ requests' = [requests EXCEPT ![r] =
                      IF score < 0
                        THEN [pc |-> "responded", score |-> score, status |-> 400]
                        ELSE [pc |-> "get", score |-> score, status |-> 0]]
    /\ UNCHANGED redisScore

\* redis.get resolves: the handler compares and either answers or goes on to
\* "await redis.set(key, score.toString())"
RedisGetResolves ==
  \E r \in Requests :
    /\ requests[r].pc = "get"
    /\ requests' = [requests EXCEPT ![r] =
                      IF IsNewRecord(@.score, CurrentScore(redisScore))
                        THEN [@ EXCEPT !.pc = "set"]
                        ELSE [@ EXCEPT !.pc = "responded", !.status = 200]]
    /\ UNCHANGED redisScore

\* redis.set stores the value and resolves: the handler answers
RedisSetResolves ==
  \E r \in Requests :
    /\ requests[r].pc = "set"
    /\ redisScore' = NumberToString(requests[r].score)
    /\ requests' = [requests EXCEPT ![r] = [@ EXCEPT !.pc = "responded", !.status = 200]]

\* redis.get or redis.set rejects: the catch answers with 500
RedisRejects ==
  \E r \in Requests :
    /\ requests[r].pc \in {"get", "set"}
    /\ requests' = [requests EXCEPT ![r] = [@ EXCEPT !.pc = "responded", !.status = 500]]
    /\ UNCHANGED redisScore

ServerInit ==
  /\ redisScore = Null
  /\ requests = [r \in Requests |-> NoRequest]

(***************************************************************************)
(* Server claims                                                           *)
(***************************************************************************)
StoredHighScore == CurrentScore(redisScore)

\* the scores of the requests that were answered with 200
AcceptedScores == {requests[r].score : r \in {q \in Requests : requests[q].status = 200}}

MaxScore(scores) ==
  IF scores = {} THEN 0 ELSE CHOOSE m \in scores : \A s \in scores : s <= m

\* C39: for a given post and user the stored high score never decreases, and
\* once every request has been answered it equals the maximum valid score
\* submitted so far, for every interleaving of concurrent POST /highscore
\* requests.
C39_HighScoreIsMaximum ==
  [][/\ StoredHighScore' >= StoredHighScore
     /\ (\A r \in Requests : requests'[r].pc \in {"none", "responded"})
          => StoredHighScore' = MaxScore(AcceptedScores')]_vars

(***************************************************************************)
(* LoadingScene: create(), update() and the SceneManager that runs them    *)
(***************************************************************************)
\* the images of imageAssets and the sounds of the audio registry
NumImages == 3
NumSounds == 2
Images == 1..NumImages
Sounds == 1..NumSounds

\* this.totalAssets = this.imageAssets.length + this.audioAssetCount
TotalAssets == NumImages + NumSounds

\* a percentage in the unit loadingProgress is kept in, so that
\* progressPerAsset = 80 / totalAssets is the whole number 80
Percent(p) == p * TotalAssets

\* this.progress = Math.min(100, Math.max(0, value))
UpdateProgress(value) ==
  IF value < 0 THEN 0 ELSE IF value > Percent(100) THEN Percent(100) ELSE value

\* 20 + (this.loadedAssets * progressPerAsset)
AssetProgress(loaded) == Percent(20) + loaded * 80

UpdateIgnoresChanging(scene, changing) == scene # "none"

\* SceneManager.update: if (this.currentScene && !this.isChanging)
UpdateReachesScene(scene, changing) == scene # "none" /\ ~changing

\* LoadingScene.update: if (this.progress >= 100 && !this.transitioned)
LoadingComplete == loadingProgress >= Percent(100) /\ ~transitioned

\* startLoadingScene: changeScene(loadingScene) runs up to the first await of
\* create(), the load of the background image
StartLoadingScene ==
  /\ loadStage = "constructed"
  /\ ~loaderChanging
  /\ loaderChanging' = TRUE
  /\ loaderScene' = "LoadingScene"
  /\ loadingProgress' = UpdateProgress(0)
  /\ loadStage' = "background"
  /\ UNCHANGED <<loaderPending, loadedAssets, transitioned, backgroundSprite,
                 textures, soundFetch, menuRequestLog>>

\* the background image settles (a failure gives the fallback background):
\* 20 percent, the loading bar is built and loadAllAssets starts on the first
\* image
BackgroundSettles ==
  \E ok \in BOOLEAN :
    /\ loadStage = "background"
    /\ backgroundSprite' = IF ok THEN "sprite" ELSE "null"
    /\ loadingProgress' = UpdateProgress(Percent(20))
    /\ loadedAssets' = 0
    /\ loadStage' = "images"
    /\ UNCHANGED <<loaderScene, loaderChanging, loaderPending, transitioned,
                   textures, soundFetch, menuRequestLog>>

\* Assets.load of the image in turn settles: the finally counts it, loaded or
\* not; after the last image preloadSounds starts every fetch
ImageSettles ==
  \E ok \in BOOLEAN :
    /\ loadStage = "images"
    /\ textures' = Append(textures, ok)
    /\ loadedAssets' = loadedAssets + 1
    /\ loadingProgress' = UpdateProgress(AssetProgress(loadedAssets + 1))
    /\ IF loadedAssets + 1 = NumImages
         THEN /\ loadStage' = "audio"
              /\ soundFetch' = [s \in Sounds |-> "pending"]
         ELSE UNCHANGED <<loadStage, soundFetch>>
    /\ UNCHANGED <<loaderScene, loaderChanging, loaderPending, transitioned,
                   backgroundSprite, menuRequestLog>>

\* one fetch of preloadSounds settles (fetchSoundData catches a failure) and
\* reports its progress; when the last one has, Promise.allSettled resolves,
\* loadAllAssets sets 100 and create() awaits context.loadProgress()
SoundFetchSettles ==
  \E s \in Sounds, ok \in BOOLEAN :
    /\ loadStage = "audio"
    /\ soundFetch[s] = "pending"
    /\ soundFetch' = [soundFetch EXCEPT ![s] = IF ok THEN "fetched" ELSE "failed"]
    /\ LET loaded == Cardinality({q \in Sounds : soundFetch'[q] # "pending"})
       IN /\ loadedAssets' = NumImages + loaded
          /\ IF loaded = NumSounds
               THEN /\ loadingProgress' = UpdateProgress(Percent(100))
                    /\ loadStage' = "saved"
               ELSE /\ loadingProgress' = UpdateProgress(AssetProgress(NumImages + loaded))
                    /\ UNCHANGED loadStage
    /\ UNCHANGED <<loaderScene, loaderChanging, loaderPending, transitioned,
                   backgroundSprite, textures, menuRequestLog>>

\* context.loadProgress() resolves and create() returns: the finally of
\* changeScene clears isChanging and starts a queued transition
LoadProgressResolves ==
  /\ loadStage = "saved"
  /\ IF loaderPending # "none"
       THEN /\ loaderPending' = "none"
            /\ loaderChanging' = TRUE
            /\ loaderScene' = loaderPending
            /\ loadStage' = "destroyed"
       ELSE /\ loaderChanging' = FALSE
            /\ loadStage' = "created"
            /\ UNCHANGED <<loaderScene, loaderPending>>
  /\ UNCHANGED <<loadingProgress, loadedAssets, transitioned, backgroundSprite,
                 textures, soundFetch, menuRequestLog>>

\* one call of the ticker: SceneManager.update and, when it reaches the
\* LoadingScene, LoadingScene.update with its changeScene(new MenuScene(..))
Tick ==
  /\ IF /\ UpdateReachesScene(loaderScene, loaderChanging)
        /\ loaderScene = "LoadingScene"
        /\ LoadingComplete
       THEN /\ transitioned' = TRUE
            /\ menuRequestLog' = Append(menuRequestLog,
                                        [progress |-> loadingProgress,
                                         created |-> loadStage = "created"])
            /\ IF loaderChanging
                 THEN /\ loaderPending' = "MenuScene"
                      /\ UNCHANGED <<loaderScene, loaderChanging, loadStage>>
                 ELSE /\ loaderChanging' = TRUE
                      /\ loaderScene' = "MenuScene"
                      /\ loadStage' = "destroyed"
                      /\ UNCHANGED loaderPending
       ELSE UNCHANGED <<loaderScene, loaderChanging, loaderPending, loadStage,
                        transitioned, menuRequestLog>>
  /\ UNCHANGED <<loadingProgress, loadedAssets, backgroundSprite, textures, soundFetch>>

\* create() of the MenuScene settles: isChanging is cleared either way
MenuCreateSettles ==
  /\ loaderScene = "MenuScene"
  /\ loaderChanging
  /\ loaderChanging' = FALSE
  /\ UNCHANGED <<loaderScene, loaderPending, loadStage, loadingProgress, loadedAssets,
                 transitioned, backgroundSprite, textures, soundFetch, menuRequestLog>>

LoadingInit ==
  /\ loaderScene = "none"
  /\ loaderChanging = FALSE
  /\ loaderPending = "none"
  /\ loadStage = "constructed"
  /\ loadingProgress = 0
  /\ loadedAssets = 0
  /\ transitioned = FALSE
  /\ backgroundSprite = "null"
  /\ textures = <<>>
  /\ soundFetch = [s \in Sounds |-> "idle"]
  /\ menuRequestLog = <<>>

(***************************************************************************)
(* LoadingScene claims                                                     *)
(***************************************************************************)
\* C40: a LoadingScene requests the transition to the MenuScene exactly once,
\* and only after its progress has reached 100 and its own create() has
\* completed.
C40_MenuRequestedOnce ==
  /\ [](/\ Len(menuRequestLog) <= 1
        /\ \A i \in 1..Len(menuRequestLog) :
             /\ menuRequestLog[i].progress = Percent(100)
             /\ menuRequestLog[i].created)
  /\ <>(Len(menuRequestLog) = 1)

\* the transition was requested although an image and a sound failed to load,
\* and ticks went on after the LoadingScene had been replaced
C40_Witness ==
  /\ Len(menuRequestLog) = 1
  /\ transitioned
  /\ loaderScene = "MenuScene"
  /\ ~loaderChanging
  /\ loadStage = "destroyed"
  /\ \E i \in 1..Len(textures) : ~textures[i]
  /\ \E s \in Sounds : soundFetch[s] = "failed"

(***************************************************************************)
(* Specifications                                                          *)
(***************************************************************************)
Init == SceneInit /\ BoardInit /\ CardInit /\ GameInit /\ AudioInit /\ PersistInit /\ LayoutInit /\ MenuInit /\ ServerInit /\ LoadingInit

SceneNext ==
  \/ ChangeSceneQueued /\ UNCHANGED nonSceneVars
  \/ ChangeSceneRun /\ UNCHANGED nonSceneVars
  \/ CreateResolves /\ UNCHANGED nonSceneVars
  \/ CreateThrows /\ UNCHANGED nonSceneVars
  \/ Update /\ UNCHANGED nonSceneVars

SceneThrowNext ==
  \/ ChangeSceneQueued /\ UNCHANGED nonSceneVars
  \/ ChangeSceneRun /\ UNCHANGED nonSceneVars
  \/ CreateResolves /\ UNCHANGED nonSceneVars
  \/ CreateThrows /\ UNCHANGED nonSceneVars
  \/ Update /\ UNCHANGED nonSceneVars
  \/ ChangeSceneTeardownThrows /\ UNCHANGED nonSceneVars
  \/ PendingTeardownThrows /\ UNCHANGED nonSceneVars

SceneDestroyNext ==
  \/ (~ManagerDestroyed /\ ChangeSceneQueued) /\ UNCHANGED nonSceneVars
  \/ (~ManagerDestroyed /\ ChangeSceneRun) /\ UNCHANGED nonSceneVars
  \/ CreateResolves /\ UNCHANGED nonSceneVars
  \/ CreateThrows /\ UNCHANGED nonSceneVars
  \/ Update /\ UNCHANGED nonSceneVars
  \/ ManagerDestroy /\ UNCHANGED nonSceneVars

BoardNext ==
  \/ CreateLevel /\ UNCHANGED nonBoardVars
  \/ CardPointerDown /\ UNCHANGED nonBoardVars
  \/ StockPointerDown /\ UNCHANGED nonBoardVars
  \/ UndoPointerUp /\ UNCHANGED nonBoardVars
  \/ MoveTweenStart /\ UNCHANGED nonBoardVars
  \/ MoveTweenComplete /\ UNCHANGED nonBoardVars
  \/ FlipComplete /\ UNCHANGED nonBoardVars
  \/ HideComplete /\ UNCHANGED nonBoardVars
  \/ WinTimer /\ UNCHANGED nonBoardVars
  \/ DialogClickOutside /\ UNCHANGED nonBoardVars
  \/ DialogContinue /\ UNCHANGED nonBoardVars
  \/ DialogClosed /\ UNCHANGED nonBoardVars
  \/ Reload /\ UNCHANGED nonBoardVars

CardNext ==
  \/ CanPlayOnCalled /\ UNCHANGED nonCardVars

GameNext ==
  \/ StartInit /\ UNCHANGED nonGameVars
  \/ PlatformResolves /\ UNCHANGED nonGameVars
  \/ PlatformRejects /\ UNCHANGED nonGameVars
  \/ TimeoutFires /\ UNCHANGED nonGameVars
  \/ AppInitResolves /\ UNCHANGED nonGameVars
  \/ ProgressLoaded /\ UNCHANGED nonGameVars
  \/ LoadingSceneCreated /\ UNCHANGED nonGameVars
  \/ LoadingSceneFails /\ UNCHANGED nonGameVars
  \/ Rotate /\ UNCHANGED nonGameVars
  \/ OrientationTick /\ UNCHANGED nonGameVars

AudioNext ==
  \/ PlayMusicCalled /\ UNCHANGED nonAudioVars
  \/ PlaySfxCalled /\ UNCHANGED nonAudioVars
  \/ StopMusicCalled /\ UNCHANGED nonAudioVars
  \/ UnlockCalled /\ UNCHANGED nonAudioVars
  \/ ResumeResolves /\ UNCHANGED nonAudioVars
  \/ ResumeRejects /\ UNCHANGED nonAudioVars
  \/ ContextStarts /\ UNCHANGED nonAudioVars
  \/ FetchFails /\ UNCHANGED nonAudioVars
  \/ SetMusicEnabledCalled /\ UNCHANGED nonAudioVars
  \/ SetSfxEnabledCalled /\ UNCHANGED nonAudioVars
  \/ SetMusicVolumeCalled /\ UNCHANGED nonAudioVars

PersistNext ==
  \/ MemoryChanges /\ UNCHANGED nonPersistVars
  \/ SaveProgressCalled /\ UNCHANGED nonPersistVars
  \/ LoadProgressCalled /\ UNCHANGED nonPersistVars
  \/ PageReloaded /\ UNCHANGED nonPersistVars

LayoutNext ==
  \/ ViewportResized /\ UNCHANGED nonLayoutVars
  \/ LayoutAppInit /\ UNCHANGED nonLayoutVars
  \/ ComputeLayoutCalled /\ UNCHANGED nonLayoutVars
  \/ GetLayoutStateCalled /\ UNCHANGED nonLayoutVars
  \/ CreateSceneLayersCalled /\ UNCHANGED nonLayoutVars
  \/ RelayoutCalled /\ UNCHANGED nonLayoutVars

MenuNext ==
  \/ MenuCreate /\ UNCHANGED nonMenuVars
  \/ MenuPointerMoves /\ UNCHANGED nonMenuVars
  \/ SettingPointerUp /\ UNCHANGED nonMenuVars
  \/ PlayPointerUp /\ UNCHANGED nonMenuVars
  \/ DialogButtonMoves /\ UNCHANGED nonMenuVars
  \/ DialogButtonUp /\ UNCHANGED nonMenuVars
  \/ OverlayPointerDown /\ UNCHANGED nonMenuVars
  \/ DialogFadeComplete /\ UNCHANGED nonMenuVars
  \/ LevelLoadResolves /\ UNCHANGED nonMenuVars
  \/ LevelLoadRejects /\ UNCHANGED nonMenuVars

LoadingNext ==
  \/ StartLoadingScene /\ UNCHANGED nonLoadingVars
  \/ BackgroundSettles /\ UNCHANGED nonLoadingVars
  \/ ImageSettles /\ UNCHANGED nonLoadingVars
  \/ SoundFetchSettles /\ UNCHANGED nonLoadingVars
  \/ LoadProgressResolves /\ UNCHANGED nonLoadingVars
  \/ Tick /\ UNCHANGED nonLoadingVars
  \/ MenuCreateSettles /\ UNCHANGED nonLoadingVars

ServerNext ==
  \/ PostReceived /\ UNCHANGED nonServerVars
  \/ RedisGetResolves /\ UNCHANGED nonServerVars
  \/ RedisSetResolves /\ UNCHANGED nonServerVars
  \/ RedisRejects /\ UNCHANGED nonServerVars

\* the SceneManager driven by its callers, the scenes' create() and the ticker
Spec == Init /\ [][SceneNext]_vars

\* create() is a promise that the scene's loads settle: once running it settles
LiveSpec == Spec /\ WF_vars(SceneNext /\ (CreateResolves \/ CreateThrows))

\* the SceneManager with scenes whose exit() or destroy() may throw
SceneThrowSpec == Init /\ [][SceneThrowNext]_vars

\* the SceneManager until and after its owner destroys it; no caller asks a
\* destroyed manager for a transition
SceneDestroySpec == Init /\ [][SceneDestroyNext]_vars

\* one GameplayScene driven by the player's input and the animation callbacks
BoardSpec == Init /\ [][BoardNext]_vars

\* Card.canPlayOn called on cards of every rank and state
CardSpec == Init /\ [][CardNext]_vars

\* one AudioManager driven by the scenes, the player's gestures, the browser's
\* audio context and the loading of the sound files
AudioSpec == Init /\ [][AudioNext]_vars

\* the progress and the settings of a Game saved to and loaded from the
\* platform, whose calls may reject
PersistSpec == Init /\ [][PersistNext]_vars

\* one MenuScene driven by the player's pointer, the dialog's fade and the
\* load of the level file
MenuSpec == Init /\ [][MenuNext]_vars

\* the server answering the POST /highscore requests of one user on one post,
\* each handler interleaving with the others at its awaits
ServerSpec == Init /\ [][ServerNext]_vars

\* one LoadingScene started by the game, the loads it awaits and the ticker
LoadingSpec == Init /\ [][LoadingNext]_vars

\* the ticker keeps calling update, and every load the LoadingScene awaits
\* settles, with a result or with an error
LoadingLiveSpec ==
  /\ LoadingSpec
  /\ WF_vars(StartLoadingScene /\ UNCHANGED nonLoadingVars)
  /\ WF_vars(BackgroundSettles /\ UNCHANGED nonLoadingVars)
  /\ WF_vars(ImageSettles /\ UNCHANGED nonLoadingVars)
  /\ WF_vars(SoundFetchSettles /\ UNCHANGED nonLoadingVars)
  /\ WF_vars(LoadProgressResolves /\ UNCHANGED nonLoadingVars)
  /\ WF_vars(Tick /\ UNCHANGED nonLoadingVars)

\* one LayoutSystem in a window the player resizes
LayoutSpec == Init /\ [][LayoutNext]_vars

\* one Game from its construction on: init(), the platform, the device that
\* rotates and the ticker
GameSpec == Init /\ [][GameNext]_vars

\* a timer that is armed fires, and app.init() and the getData calls of
\* loadProgress settle; platform.initialize() is free never to settle
GameLiveSpec ==
  /\ GameSpec
  /\ WF_vars(TimeoutFires /\ UNCHANGED nonGameVars)
  /\ WF_vars(AppInitResolves /\ UNCHANGED nonGameVars)
  /\ WF_vars(ProgressLoaded /\ UNCHANGED nonGameVars)

====
